---- MODULE Spec2Model ----
(***************************************************************************)
(* The resource-allocation and guard-lifecycle handlers of the backend     *)
(* (src/src/handlers), modelled as request handlers running against one    *)
(* shared relational store.  Every SQL statement a handler awaits is one   *)
(* step of the client that runs the handler; a handler's local variables   *)
(* live in loc[p] between its steps.  Tables are sequences of rows, a      *)
(* row's id being its index (utils::generate_id() yields a fresh id).      *)
(***************************************************************************)
EXTENDS Integers, Sequences, FiniteSets, TLC

VARIABLES
    firearms,               \* firearms.id -> status
    firearm_allocations,    \* rows of firearm_allocations
    guard_firearm_permits,  \* rows of guard_firearm_permits
    training_records,       \* rows of training_records
    armored_cars,           \* armored_cars.id -> status
    trips,                  \* rows of trips
    shifts,                 \* rows of shifts
    attendance,             \* rows of attendance
    notifications,          \* rows of notifications
    guard_availability,     \* rows [guard_id, available]
    car_allocations,        \* rows of car_allocations
    guard_merit_scores,     \* rows of guard_merit_scores
    punctuality_records,    \* rows of punctuality_records
    client_evaluations,     \* rows of client_evaluations
    firearm_maintenance,    \* rows of firearm_maintenance
    now,                    \* CURRENT_TIMESTAMP / NOW(), in minutes
    pc,                     \* client -> the statement its handler awaits next
    req,                    \* client -> the payload of its request
    loc,                    \* client -> the handler's local variables
    res,                    \* client -> the response of its last request
    pre                     \* the store and the clock when the running request began

\* The tables of the car-allocation, merit and maintenance handlers.
side_tables == <<car_allocations, guard_merit_scores, punctuality_records,
                 client_evaluations, firearm_maintenance>>
tables == <<firearms, firearm_allocations, guard_firearm_permits, training_records,
            armored_cars, trips, shifts, attendance, notifications, guard_availability,
            side_tables>>
clients == <<pc, req, loc, res>>
vars == <<tables, now, clients, pre>>

\* ------------------------------------------------------------------ bounds
NumClients == 2
MaxAllocs == 3
MaxShifts == 3
MaxTrips == 2
MaxRequired == 3
MaxPermits == 1
MaxTraining == 1
MaxTicks == 2
MaxGateAllocs == 1
MaxRosterShifts == 1
MaxAttendance == 1

\* At most this many shifts are created in the shift-creation runs.
MaxCreatedShifts == 2

\* At most this many check-ins are recorded in the attendance runs.
MaxCheckIns == 2

\* At most this many shifts exist in the no-show scan runs.
MaxScanShifts == 2

\* In the merit runs a guard's history holds at most this many shifts, completed
\* attendance records and punctuality records, and this many evaluations.
MaxHistory == 3
MaxEvaluations == 2

\* submit_client_evaluation accepts ratings from 0 to MaxRating.
MaxRating == 5

Clients == 1..NumClients

NULL == "NULL"
NullTime == -1

\* COALESCE(s.grace_period_minutes, 15): the grace period of a shift that has none.
DefaultGraceMinutes == 15

\* LIMIT 20 of the substitute query.
CandidateLimit == 20

\* The clock moves in steps of one grace period.
TickMinutes == DefaultGraceMinutes

\* ------------------------------------------------------------- static data
\* The users table: user management is outside the engine and no handler
\* modelled here writes it.
users ==
    [g1 |-> [role |-> "user",  verified |-> TRUE],
     g2 |-> [role |-> "user",  verified |-> TRUE],
     g3 |-> [role |-> "user",  verified |-> FALSE],
     a1 |-> [role |-> "admin", verified |-> TRUE]]

UserIds == DOMAIN users

\* The store, as one value.
Store ==
    [firearms |-> firearms, firearm_allocations |-> firearm_allocations,
     guard_firearm_permits |-> guard_firearm_permits,
     training_records |-> training_records,
     armored_cars |-> armored_cars, trips |-> trips, shifts |-> shifts,
     attendance |-> attendance, notifications |-> notifications,
     guard_availability |-> guard_availability,
     car_allocations |-> car_allocations,
     guard_merit_scores |-> guard_merit_scores,
     punctuality_records |-> punctuality_records,
     client_evaluations |-> client_evaluations,
     firearm_maintenance |-> firearm_maintenance]

\* What pre remembers of the moment a request begins.
Snapshot == [store |-> Store, now |-> now]

NoSnapshot == [store |-> [firearms |-> <<>>], now |-> 0]
NoReq == [op |-> "none"]
NoLoc == [todo |-> <<>>]
NoRes == [op |-> "none", kind |-> "none"]

\* ---------------------------------------------------------------- helpers
\* All sequences of n distinct elements of S: the rows a query with LIMIT n
\* and no ORDER BY may return, in any order the store picks.
RECURSIVE Picks(_, _)
Picks(S, n) ==
    IF n = 0 \/ S = {} THEN {<<>>}
    ELSE UNION {{<<x>> \o t : t \in Picks(S \ {x}, n - 1)} : x \in S}

Min(a, b) == IF a < b THEN a ELSE b

\* A handler returns: the client is idle again and res holds the response.
Return(p, r) ==
    /\ pc' = [pc EXCEPT ![p] = "idle"]
    /\ res' = [res EXCEPT ![p] = r]
    /\ loc' = [loc EXCEPT ![p] = NoLoc]
    /\ UNCHANGED req

Goto(p, label) ==
    /\ pc' = [pc EXCEPT ![p] = label]
    /\ UNCHANGED <<req, res>>

Err(p, kind, reason) == Return(p, [op |-> req[p].op, kind |-> kind, reason |-> reason])

\* ------------------------------------------------------------------ Init
Init ==
    /\ firearms = [f1 |-> "available", f2 |-> "available"]
    /\ firearm_allocations = <<>>
    /\ guard_firearm_permits =
         <<[guard_id |-> "g1", status |-> "active", expiry_date |-> 8 * TickMinutes],
           [guard_id |-> "g2", status |-> "active", expiry_date |-> 8 * TickMinutes]>>
    /\ training_records =
         <<[guard_id |-> "g1", training_type |-> "firearms_handling",
            status |-> "valid", expiry_date |-> NullTime],
           [guard_id |-> "g2", training_type |-> "firearms_handling",
            status |-> "valid", expiry_date |-> 8 * TickMinutes]>>
    /\ armored_cars = [v1 |-> "operational", v2 |-> "available"]
    /\ trips = <<>>
    /\ shifts = <<>>
    /\ attendance = <<>>
    /\ notifications = <<>>
    /\ guard_availability = <<>>
    /\ car_allocations = <<>>
    /\ guard_merit_scores = <<>>
    /\ punctuality_records = <<>>
    /\ client_evaluations = <<>>
    /\ firearm_maintenance = <<>>
    /\ now = 0
    /\ pc = [p \in Clients |-> "idle"]
    /\ req = [p \in Clients |-> NoReq]
    /\ loc = [p \in Clients |-> NoLoc]
    /\ res = [p \in Clients |-> NoRes]
    /\ pre = NoSnapshot

\* ------------------------------------------- firearm_allocation.rs: issue
\* An allocation is open while its status is active.
ActiveAllocations(f) ==
    {i \in DOMAIN firearm_allocations :
        /\ firearm_allocations[i].firearm_id = f
        /\ firearm_allocations[i].status = "active"}

\* The permit query without its expiry_date test.
HasValidPermit_IgnoringExpiry(g) ==
    \E i \in DOMAIN guard_firearm_permits :
        /\ guard_firearm_permits[i].guard_id = g
        /\ guard_firearm_permits[i].status = "active"

\* SELECT id FROM guard_firearm_permits WHERE guard_id = $1
\*   AND status = 'active' AND expiry_date > NOW() LIMIT 1
HasValidPermit(g) ==
    \E i \in DOMAIN guard_firearm_permits :
        /\ guard_firearm_permits[i].guard_id = g
        /\ guard_firearm_permits[i].status = "active"
        /\ guard_firearm_permits[i].expiry_date > now

\* SELECT id FROM training_records WHERE guard_id = $1
\*   AND training_type = 'firearms_handling' AND status = 'valid'
\*   AND (expiry_date IS NULL OR expiry_date > NOW()) LIMIT 1
HasValidTraining(g) ==
    \E i \in DOMAIN training_records :
        /\ training_records[i].guard_id = g
        /\ training_records[i].training_type = "firearms_handling"
        /\ training_records[i].status = "valid"
        /\ (training_records[i].expiry_date = NullTime
            \/ training_records[i].expiry_date > now)

\* The request arrives; an empty id is refused before any query.
BeginIssue(p, f, g, force) ==
    /\ pc[p] = "idle"
    /\ req' = [req EXCEPT ![p] =
                 [op |-> "issue_firearm", firearm_id |-> f, guard_id |-> g,
                  force |-> force]]
    /\ loc' = [loc EXCEPT ![p] = NoLoc]
    /\ IF f = "" \/ g = ""
       THEN /\ pc' = pc
            /\ res' = [res EXCEPT ![p] =
                         [op |-> "issue_firearm", kind |-> "BadRequest",
                          reason |-> "ids required"]]
       ELSE /\ pc' = [pc EXCEPT ![p] = "if_firearm"]
            /\ res' = [res EXCEPT ![p] = NoRes]
    /\ UNCHANGED <<tables, now>>

\* 1. SELECT id, status FROM firearms WHERE id = $1, then the status test.
IssueCheckFirearm(p) ==
    /\ pc[p] = "if_firearm"
    /\ LET f == req[p].firearm_id IN
       IF f \notin DOMAIN firearms
       THEN Err(p, "NotFound", "Firearm not found")
       ELSE IF ~req[p].force /\ firearms[f] # "available"
       THEN Err(p, "BadRequest", "Firearm is not available")
       ELSE Goto(p, "if_guard") /\ UNCHANGED loc
    /\ UNCHANGED <<tables, now, pre>>

\* The guard lookup without its NotFound answer: the handler goes on to the
\* permit check whether or not the guard exists.
IssueCheckGuard_NoCheck(p) ==
    /\ pc[p] = "if_guard"
    /\ Goto(p, "if_permit") /\ UNCHANGED loc
    /\ UNCHANGED <<tables, now, pre>>

\* 2. SELECT id FROM users WHERE id = $1
IssueCheckGuard(p) ==
    /\ pc[p] = "if_guard"
    /\ IF req[p].guard_id \notin UserIds
       THEN Err(p, "NotFound", "Guard not found")
       ELSE Goto(p, "if_permit") /\ UNCHANGED loc
    /\ UNCHANGED <<tables, now, pre>>

\* 3. The permit check, skipped under force.
IssueCheckPermit(p) ==
    /\ pc[p] = "if_permit"
    /\ IF ~req[p].force /\ ~HasValidPermit(req[p].guard_id)
       THEN Err(p, "Forbidden", "no valid permit")
       ELSE Goto(p, "if_training") /\ UNCHANGED loc
    /\ UNCHANGED <<tables, now, pre>>

\* The training check placed after the firearm's status update.
IssueCheckTraining_AfterStatusUpdate(p) ==
    /\ pc[p] = "if_training"
    /\ firearms' = [firearms EXCEPT ![req[p].firearm_id] = "allocated"]
    /\ IF ~req[p].force /\ ~HasValidTraining(req[p].guard_id)
       THEN Err(p, "Forbidden", "no valid training")
       ELSE Goto(p, "if_insert") /\ UNCHANGED loc
    /\ UNCHANGED <<side_tables, firearm_allocations, guard_firearm_permits, training_records,
                   armored_cars, trips, shifts, attendance, notifications,
                   guard_availability, now, pre>>

\* 4. The firearms_handling training check, skipped under force.
IssueCheckTraining(p) ==
    /\ pc[p] = "if_training"
    /\ IF ~req[p].force /\ ~HasValidTraining(req[p].guard_id)
       THEN Err(p, "Forbidden", "no valid training")
       ELSE Goto(p, "if_insert") /\ UNCHANGED loc
    /\ UNCHANGED <<tables, now, pre>>

\* The row INSERT INTO firearm_allocations adds: status 'active', no return_date.
NewAllocation(g, f) ==
    [guard_id |-> g, firearm_id |-> f, status |-> "active", return_date |-> NullTime]

\* 5. INSERT INTO firearm_allocations (...) VALUES (..., 'active', ...)
IssueInsertAllocation(p) ==
    /\ pc[p] = "if_insert"
    /\ firearm_allocations' =
         Append(firearm_allocations, NewAllocation(req[p].guard_id, req[p].firearm_id))
    /\ loc' = [loc EXCEPT ![p] = [todo |-> <<>>, allocation_id |-> Len(firearm_allocations) + 1]]
    /\ Goto(p, "if_update")
    /\ UNCHANGED <<side_tables, firearms, guard_firearm_permits, training_records, armored_cars,
                   trips, shifts, attendance, notifications, guard_availability, now, pre>>

\* UPDATE firearms SET status = 'allocated' WHERE id = $1, then 201 Created.
IssueUpdateFirearm(p) ==
    /\ pc[p] = "if_update"
    /\ firearms' = [firearms EXCEPT ![req[p].firearm_id] = "allocated"]
    /\ Return(p, [op |-> "issue_firearm", kind |-> "Created",
                  allocationId |-> loc[p].allocation_id])
    /\ UNCHANGED <<side_tables, firearm_allocations, guard_firearm_permits, training_records,
                   armored_cars, trips, shifts, attendance, notifications,
                   guard_availability, now, pre>>

\* The log events one issue_firearm request leaves, given its payload q and
\* its response r. The handler has no tracing call, so the only event is the
\* one the router's TraceLayer records for every request: the path and the
\* outcome, nothing of the body, hence nothing of force.
IssueFirearmEvents(q, r) ==
    {[uri |-> "/api/firearm-allocation/issue", outcome |-> r.kind]}

\* ------------------------------------------ firearm_allocation.rs: return
BeginReturn(p, a) ==
    /\ pc[p] = "idle"
    /\ req' = [req EXCEPT ![p] = [op |-> "return_firearm", allocation_id |-> a]]
    /\ loc' = [loc EXCEPT ![p] = NoLoc]
    /\ pc' = [pc EXCEPT ![p] = "rf_select"]
    /\ res' = [res EXCEPT ![p] = NoRes]
    /\ UNCHANGED <<tables, now>>

\* SELECT firearm_id FROM firearm_allocations WHERE id = $1
ReturnSelect(p) ==
    /\ pc[p] = "rf_select"
    /\ IF req[p].allocation_id \notin DOMAIN firearm_allocations
       THEN Err(p, "NotFound", "Allocation not found")
       ELSE /\ loc' = [loc EXCEPT ![p] =
                         [todo |-> <<>>,
                          firearm_id |-> firearm_allocations[req[p].allocation_id].firearm_id]]
            /\ Goto(p, "rf_update_alloc")
    /\ UNCHANGED <<tables, now, pre>>

\* UPDATE firearm_allocations SET return_date = CURRENT_TIMESTAMP,
\*   status = 'returned' WHERE id = $1
ReturnUpdateAllocation(p) ==
    /\ pc[p] = "rf_update_alloc"
    /\ firearm_allocations' =
         [firearm_allocations EXCEPT ![req[p].allocation_id] =
             [@ EXCEPT !.status = "returned", !.return_date = now]]
    /\ Goto(p, "rf_update_firearm")
    /\ UNCHANGED <<side_tables, loc, firearms, guard_firearm_permits, training_records, armored_cars,
                   trips, shifts, attendance, notifications, guard_availability, now, pre>>

\* The firearm update without its WHERE clause: every firearm is set available.
ReturnUpdateFirearm_EveryFirearm(p) ==
    /\ pc[p] = "rf_update_firearm"
    /\ firearms' = [f \in DOMAIN firearms |-> "available"]
    /\ Return(p, [op |-> "return_firearm", kind |-> "Ok"])
    /\ UNCHANGED <<side_tables, firearm_allocations, guard_firearm_permits, training_records,
                   armored_cars, trips, shifts, attendance, notifications,
                   guard_availability, now, pre>>

\* UPDATE firearms SET status = 'available' WHERE id = $1, then 200 OK.
ReturnUpdateFirearm(p) ==
    /\ pc[p] = "rf_update_firearm"
    /\ firearms' = [firearms EXCEPT ![loc[p].firearm_id] = "available"]
    /\ Return(p, [op |-> "return_firearm", kind |-> "Ok"])
    /\ UNCHANGED <<side_tables, firearm_allocations, guard_firearm_permits, training_records,
                   armored_cars, trips, shifts, attendance, notifications,
                   guard_availability, now, pre>>

\* ------------------------------------------------- missions.rs: assign_mission
\* SELECT ... FROM users WHERE role = 'user' AND verified = true
MissionGuards == {u \in UserIds : users[u].role = "user" /\ users[u].verified}

\* SELECT ... FROM firearms WHERE status = 'available'
AvailableFirearms == {f \in DOMAIN firearms : firearms[f] = "available"}

\* The vehicle query if it also took cars whose status is available.
OperationalCars_OrAvailable ==
    {v \in DOMAIN armored_cars : armored_cars[v] \in {"operational", "available"}}

\* SELECT ... FROM armored_cars WHERE status = 'operational'
OperationalCars == {v \in DOMAIN armored_cars : armored_cars[v] = "operational"}

\* The row INSERT INTO shifts adds: status 'scheduled'; the columns the statement
\* does not name (replacement_status, grace_period_minutes) are NULL.
NewShift(g, start, end, site) ==
    [guard_id |-> g, start_time |-> start, end_time |-> end, client_site |-> site,
     status |-> "scheduled", replacement_status |-> NULL,
     grace_period_minutes |-> NullTime]

\* The row INSERT INTO trips adds: status 'scheduled'.
NewTrip(v, driver, start, end) ==
    [car_id |-> v, driver_id |-> driver, start_time |-> start, end_time |-> end,
     status |-> "scheduled"]

\* The write statements of steps 4-6 in the order the handler issues them: one
\* shift per guard; per firearm i that has a guard i, the allocation insert and
\* the firearm update; one trip per vehicle, driven by the first guard.
MissionWrites(gs, fs, vs) ==
    LET k == Min(Len(fs), Len(gs))
        driver == IF Len(gs) > 0 THEN gs[1] ELSE ""
    IN  [i \in 1..Len(gs) |-> [t |-> "ins_shift", guard_id |-> gs[i]]]
        \o [j \in 1..(2 * k) |->
              IF j % 2 = 1
              THEN [t |-> "ins_alloc", guard_id |-> gs[(j + 1) \div 2],
                    firearm_id |-> fs[(j + 1) \div 2]]
              ELSE [t |-> "upd_firearm", firearm_id |-> fs[j \div 2]]]
        \o [i \in 1..Len(vs) |-> [t |-> "ins_trip", car_id |-> vs[i], driver_id |-> driver]]

\* firearm_assignments: the firearms that got a guard.
MissionFirearms(gs, fs) == SubSeq(fs, 1, Min(Len(fs), Len(gs)))

MissionCreated(l) ==
    [op |-> "assign_mission", kind |-> "Created", guards |-> l.guards,
     firearms |-> MissionFirearms(l.guards, l.firearms), vehicles |-> l.vehicles]

BeginMission(p, g, f, v, start, end) ==
    /\ pc[p] = "idle"
    /\ req' = [req EXCEPT ![p] =
                 [op |-> "assign_mission", guards_required |-> g,
                  firearms_required |-> f, vehicles_required |-> v,
                  start_time |-> start, end_time |-> end, destination |-> "site"]]
    /\ loc' = [loc EXCEPT ![p] = NoLoc]
    /\ pc' = [pc EXCEPT ![p] = "am_guards"]
    /\ res' = [res EXCEPT ![p] = NoRes]
    /\ UNCHANGED <<tables, now>>

\* 1. Find available guards (LIMIT guards_required), then the count test.
MissionFindGuards(p) ==
    /\ pc[p] = "am_guards"
    /\ \E gs \in Picks(MissionGuards, req[p].guards_required) :
         IF Len(gs) < req[p].guards_required
         THEN Err(p, "BadRequest", "Insufficient guards available")
         ELSE /\ loc' = [loc EXCEPT ![p] = [todo |-> <<>>, guards |-> gs]]
              /\ Goto(p, "am_firearms")
    /\ UNCHANGED <<tables, now, pre>>

\* MissionFindFirearms without the count test: the handler goes on with
\* however many firearms the query returned.
MissionFindFirearms_NoCountTest(p) ==
    /\ pc[p] = "am_firearms"
    /\ \E fs \in Picks(AvailableFirearms, req[p].firearms_required) :
         /\ loc' = [loc EXCEPT ![p] =
                      [todo |-> <<>>, guards |-> loc[p].guards, firearms |-> fs]]
         /\ Goto(p, "am_vehicles")
    /\ UNCHANGED <<tables, now, pre>>

\* 2. Find available firearms (LIMIT firearms_required), then the count test.
MissionFindFirearms(p) ==
    /\ pc[p] = "am_firearms"
    /\ \E fs \in Picks(AvailableFirearms, req[p].firearms_required) :
         IF Len(fs) < req[p].firearms_required
         THEN Err(p, "BadRequest", "Insufficient firearms available")
         ELSE /\ loc' = [loc EXCEPT ![p] =
                           [todo |-> <<>>, guards |-> loc[p].guards, firearms |-> fs]]
              /\ Goto(p, "am_vehicles")
    /\ UNCHANGED <<tables, now, pre>>

\* 3. Find available vehicles (LIMIT vehicles_required), then the count test.
\* With all three snapshots taken the handler goes on to its writes; with
\* nothing to write it answers 201 at once.
MissionFindVehicles(p) ==
    /\ pc[p] = "am_vehicles"
    /\ \E vs \in Picks(OperationalCars, req[p].vehicles_required) :
         IF Len(vs) < req[p].vehicles_required
         THEN Err(p, "BadRequest", "Insufficient vehicles available")
         ELSE LET l == [todo |-> MissionWrites(loc[p].guards, loc[p].firearms, vs),
                        guards |-> loc[p].guards, firearms |-> loc[p].firearms,
                        vehicles |-> vs]
              IN  IF l.todo = <<>>
                  THEN Return(p, MissionCreated(l))
                  ELSE /\ loc' = [loc EXCEPT ![p] = l]
                       /\ Goto(p, "am_write")
    /\ UNCHANGED <<tables, now, pre>>

\* One write statement of steps 4-6, applied to the store.
MissionExec(p, s) ==
    /\ shifts' = IF s.t = "ins_shift"
                 THEN Append(shifts, NewShift(s.guard_id, req[p].start_time,
                                              req[p].end_time, req[p].destination))
                 ELSE shifts
    /\ firearm_allocations' = IF s.t = "ins_alloc"
                              THEN Append(firearm_allocations,
                                          NewAllocation(s.guard_id, s.firearm_id))
                              ELSE firearm_allocations
    /\ firearms' = IF s.t = "upd_firearm"
                   THEN [firearms EXCEPT ![s.firearm_id] = "allocated"]
                   ELSE firearms
    /\ trips' = IF s.t = "ins_trip"
                THEN Append(trips, NewTrip(s.car_id, s.driver_id, req[p].start_time,
                                           req[p].end_time))
                ELSE trips
    /\ UNCHANGED <<side_tables, guard_firearm_permits, training_records, armored_cars, attendance,
                   notifications, guard_availability>>

\* trips.driver_id REFERENCES users(id): a trip whose driver is no user (the
\* empty default of guards.first()) is refused by the store.
MissionStmtRefused(s) == s.t = "ins_trip" /\ s.driver_id \notin UserIds

\* 4-6. The next write statement; after the last one, 201 Created.
MissionWrite(p) ==
    /\ pc[p] = "am_write"
    /\ LET s == Head(loc[p].todo) IN
       IF MissionStmtRefused(s)
       THEN /\ Err(p, "DatabaseError", "Failed to create trip")
            /\ UNCHANGED tables
       ELSE /\ MissionExec(p, s)
            /\ IF Len(loc[p].todo) = 1
               THEN Return(p, MissionCreated(loc[p]))
               ELSE /\ loc' = [loc EXCEPT ![p].todo = Tail(@)]
                    /\ Goto(p, "am_write")
    /\ UNCHANGED <<now, pre>>

\* The store fails the next write statement (a transient error): map_err(...)?
\* returns the DatabaseError at once.
MissionWriteFails(p) ==
    /\ pc[p] = "am_write"
    /\ Err(p, "DatabaseError", "write failed")
    /\ UNCHANGED <<tables, now, pre>>

\* ------------------------------------- guard_replacement.rs: create_shift
\* The request arrives; an empty field is refused before any query.
BeginCreateShift(p, g, start, end, site) ==
    /\ pc[p] = "idle"
    /\ req' = [req EXCEPT ![p] =
                 [op |-> "create_shift", guard_id |-> g, start_time |-> start,
                  end_time |-> end, client_site |-> site]]
    /\ loc' = [loc EXCEPT ![p] = NoLoc]
    /\ IF g = "" \/ site = ""
       THEN /\ pc' = pc
            /\ res' = [res EXCEPT ![p] =
                         [op |-> "create_shift", kind |-> "BadRequest",
                          reason |-> "All fields are required"]]
       ELSE /\ pc' = [pc EXCEPT ![p] = "cs_guard"]
            /\ res' = [res EXCEPT ![p] = NoRes]
    /\ UNCHANGED <<tables, now>>

\* SELECT id FROM users WHERE id = $1
CreateShiftCheckGuard(p) ==
    /\ pc[p] = "cs_guard"
    /\ IF req[p].guard_id \notin UserIds
       THEN Err(p, "NotFound", "Guard not found")
       ELSE Goto(p, "cs_insert") /\ UNCHANGED loc
    /\ UNCHANGED <<tables, now, pre>>

\* INSERT INTO shifts (...) VALUES (..., 'scheduled'), then 201 Created.
CreateShiftInsert(p) ==
    /\ pc[p] = "cs_insert"
    /\ shifts' = Append(shifts, NewShift(req[p].guard_id, req[p].start_time,
                                         req[p].end_time, req[p].client_site))
    /\ Return(p, [op |-> "create_shift", kind |-> "Created",
                  shiftId |-> Len(shifts) + 1])
    /\ UNCHANGED <<side_tables, firearms, firearm_allocations, guard_firearm_permits,
                   training_records, armored_cars, trips, attendance,
                   notifications, guard_availability, now, pre>>

\* ----------------------------------------- guard_replacement.rs: check_in
BeginCheckIn(p, g, s) ==
    /\ pc[p] = "idle"
    /\ req' = [req EXCEPT ![p] = [op |-> "check_in", guard_id |-> g, shift_id |-> s]]
    /\ loc' = [loc EXCEPT ![p] = NoLoc]
    /\ pc' = [pc EXCEPT ![p] = "ci_shift"]
    /\ res' = [res EXCEPT ![p] = NoRes]
    /\ UNCHANGED <<tables, now>>

\* SELECT id FROM shifts WHERE id = $1
CheckInSelectShift(p) ==
    /\ pc[p] = "ci_shift"
    /\ IF req[p].shift_id \notin DOMAIN shifts
       THEN Err(p, "NotFound", "Shift not found")
       ELSE Goto(p, "ci_insert") /\ UNCHANGED loc
    /\ UNCHANGED <<tables, now, pre>>

\* INSERT INTO attendance (...) VALUES (..., CURRENT_TIMESTAMP, 'checked_in');
\* check_out_time, which the statement does not name, is NULL. The foreign key
\* on guard_id refuses a guard that is not in users.
CheckInInsert(p) ==
    /\ pc[p] = "ci_insert"
    /\ IF req[p].guard_id \notin UserIds
       THEN /\ Err(p, "DatabaseError", "Failed to record check-in")
            /\ UNCHANGED attendance
       ELSE /\ attendance' =
                 Append(attendance,
                        [guard_id |-> req[p].guard_id, shift_id |-> req[p].shift_id,
                         check_in_time |-> now, check_out_time |-> NullTime,
                         status |-> "checked_in"])
            /\ Return(p, [op |-> "check_in", kind |-> "Created",
                          attendanceId |-> Len(attendance) + 1])
    /\ UNCHANGED <<side_tables, firearms, firearm_allocations, guard_firearm_permits,
                   training_records, armored_cars, trips, shifts,
                   notifications, guard_availability, now, pre>>

\* ---------------------------------------- guard_replacement.rs: check_out
BeginCheckOut(p, a) ==
    /\ pc[p] = "idle"
    /\ req' = [req EXCEPT ![p] = [op |-> "check_out", attendance_id |-> a]]
    /\ loc' = [loc EXCEPT ![p] = NoLoc]
    /\ pc' = [pc EXCEPT ![p] = "co_select"]
    /\ res' = [res EXCEPT ![p] = NoRes]
    /\ UNCHANGED <<tables, now>>

\* SELECT id FROM attendance WHERE id = $1
CheckOutSelect(p) ==
    /\ pc[p] = "co_select"
    /\ IF req[p].attendance_id \notin DOMAIN attendance
       THEN Err(p, "NotFound", "Attendance not found")
       ELSE Goto(p, "co_update") /\ UNCHANGED loc
    /\ UNCHANGED <<tables, now, pre>>

\* The check-out statement if it closed the record as completed.
CheckOutUpdate_Completes(p) ==
    /\ pc[p] = "co_update"
    /\ attendance' = [attendance EXCEPT ![req[p].attendance_id] =
                        [@ EXCEPT !.check_out_time = now, !.status = "completed"]]
    /\ Return(p, [op |-> "check_out", kind |-> "Ok"])
    /\ UNCHANGED <<side_tables, firearms, firearm_allocations, guard_firearm_permits,
                   training_records, armored_cars, trips, shifts,
                   notifications, guard_availability, now, pre>>

\* UPDATE attendance SET check_out_time = CURRENT_TIMESTAMP,
\*   status = 'checked_out' WHERE id = $1, then 200 OK.
CheckOutUpdate(p) ==
    /\ pc[p] = "co_update"
    /\ attendance' = [attendance EXCEPT ![req[p].attendance_id] =
                        [@ EXCEPT !.check_out_time = now, !.status = "checked_out"]]
    /\ Return(p, [op |-> "check_out", kind |-> "Ok"])
    /\ UNCHANGED <<side_tables, firearms, firearm_allocations, guard_firearm_permits,
                   training_records, armored_cars, trips, shifts,
                   notifications, guard_availability, now, pre>>

\* ----------------------------------- guard_replacement.rs: set_availability
BeginSetAvailability(p, g, available) ==
    /\ pc[p] = "idle"
    /\ req' = [req EXCEPT ![p] =
                 [op |-> "set_availability", guard_id |-> g, available |-> available]]
    /\ loc' = [loc EXCEPT ![p] = NoLoc]
    /\ pc' = [pc EXCEPT ![p] = "sa_guard"]
    /\ res' = [res EXCEPT ![p] = NoRes]
    /\ UNCHANGED <<tables, now>>

\* SELECT id FROM users WHERE id = $1
SetAvailabilityCheckGuard(p) ==
    /\ pc[p] = "sa_guard"
    /\ IF req[p].guard_id \notin UserIds
       THEN Err(p, "NotFound", "Guard not found")
       ELSE Goto(p, "sa_select") /\ UNCHANGED loc
    /\ UNCHANGED <<tables, now, pre>>

\* SELECT id FROM guard_availability WHERE guard_id = $1 ... LIMIT 1
SetAvailabilitySelect(p) ==
    /\ pc[p] = "sa_select"
    /\ loc' = [loc EXCEPT ![p] =
                 [todo |-> <<>>,
                  existing |-> \E i \in DOMAIN guard_availability :
                                   guard_availability[i].guard_id = req[p].guard_id]]
    /\ Goto(p, "sa_write")
    /\ UNCHANGED <<tables, now, pre>>

\* UPDATE guard_availability SET available = $1 WHERE guard_id = $2 when a row
\* was found, INSERT INTO guard_availability (...) otherwise.
SetAvailabilityWrite(p) ==
    /\ pc[p] = "sa_write"
    /\ guard_availability' =
         IF loc[p].existing
         THEN [i \in DOMAIN guard_availability |->
                 IF guard_availability[i].guard_id = req[p].guard_id
                 THEN [guard_availability[i] EXCEPT !.available = req[p].available]
                 ELSE guard_availability[i]]
         ELSE Append(guard_availability,
                     [guard_id |-> req[p].guard_id, available |-> req[p].available])
    /\ Return(p, [op |-> "set_availability", kind |-> "Ok"])
    /\ UNCHANGED <<side_tables, firearms, firearm_allocations, guard_firearm_permits,
                   training_records, armored_cars, trips, shifts, attendance,
                   notifications, now, pre>>

\* ------------------------------------ guard_replacement.rs: detect_no_shows
\* The scan with no grace period: a shift is overdue from its start_time on.
GraceMinutes_NoGrace(s) == 0

\* COALESCE(s.grace_period_minutes, 15)
GraceMinutes(s) ==
    IF s.grace_period_minutes = NullTime THEN DefaultGraceMinutes
    ELSE s.grace_period_minutes

\* COALESCE(s.replacement_status, 'not_needed')
ReplacementStatus(s) ==
    IF s.replacement_status = NULL THEN "not_needed" ELSE s.replacement_status

\* The scan's first query without its replacement_status test.
NoShowShifts_AnyReplacementStatus ==
    {i \in DOMAIN shifts :
        /\ \A a \in DOMAIN attendance : attendance[a].shift_id # i
        /\ shifts[i].status = "scheduled"
        /\ shifts[i].start_time + GraceMinutes(shifts[i]) <= now}

\* SELECT ... FROM shifts s LEFT JOIN attendance a ON s.id = a.shift_id
\*   WHERE a.id IS NULL AND s.status = 'scheduled'
\*   AND (s.start_time + INTERVAL '1 minute' * COALESCE(s.grace_period_minutes, 15))
\*       <= CURRENT_TIMESTAMP
\*   AND COALESCE(s.replacement_status, 'not_needed') = 'not_needed'
NoShowShifts ==
    {i \in DOMAIN shifts :
        /\ \A a \in DOMAIN attendance : attendance[a].shift_id # i
        /\ shifts[i].status = "scheduled"
        /\ shifts[i].start_time + GraceMinutes(shifts[i]) <= now
        /\ ReplacementStatus(shifts[i]) = "not_needed"}

\* The substitute query without its NOT EXISTS test on the guard's own shifts.
AvailableGuards_IgnoringShifts(row) ==
    {u \in UserIds :
        /\ u # row.guard_id
        /\ users[u].role = "user"
        /\ users[u].verified
        /\ \/ \A i \in DOMAIN guard_availability : guard_availability[i].guard_id # u
           \/ \E i \in DOMAIN guard_availability :
                guard_availability[i].guard_id = u /\ guard_availability[i].available}

\* The substitute query for a no-show row: verified users with role 'user'
\* other than the row's guard, with no availability row or an available one,
\* holding no scheduled or in-progress shift that overlaps the row's window.
AvailableGuards(row) ==
    {u \in UserIds :
        /\ u # row.guard_id
        /\ users[u].role = "user"
        /\ users[u].verified
        /\ \/ \A i \in DOMAIN guard_availability : guard_availability[i].guard_id # u
           \/ \E i \in DOMAIN guard_availability :
                guard_availability[i].guard_id = u /\ guard_availability[i].available
        /\ ~\E j \in DOMAIN shifts :
               /\ shifts[j].guard_id = u
               /\ shifts[j].status \in {"scheduled", "in_progress"}
               /\ shifts[j].start_time <= row.end_time
               /\ shifts[j].end_time >= row.start_time}

\* The row INSERT INTO notifications adds: type 'replacement_request', unread.
NewNotification(u, s) ==
    [user_id |-> u, type |-> "replacement_request", related_shift_id |-> s,
     read |-> FALSE]

BeginDetect(p) ==
    /\ pc[p] = "idle"
    /\ req' = [req EXCEPT ![p] = [op |-> "detect_no_shows"]]
    /\ loc' = [loc EXCEPT ![p] = NoLoc]
    /\ pc' = [pc EXCEPT ![p] = "dn_select"]
    /\ res' = [res EXCEPT ![p] = NoRes]
    /\ UNCHANGED <<tables, now>>

DetectDone(l) ==
    [op |-> "detect_no_shows", kind |-> "Ok", noShowsCount |-> l.count,
     notifiedGuards |-> l.notified]

\* Step 1: the no-show rows, in whatever order the store returns them.
DetectSelect(p) ==
    /\ pc[p] = "dn_select"
    /\ \E order \in Picks(NoShowShifts, Cardinality(NoShowShifts)) :
         LET rows == [k \in DOMAIN order |->
                        [id |-> order[k], guard_id |-> shifts[order[k]].guard_id,
                         start_time |-> shifts[order[k]].start_time,
                         end_time |-> shifts[order[k]].end_time]]
             l == [todo |-> rows, guards |-> <<>>, count |-> Len(rows),
                   notified |-> <<>>]
         IN  IF rows = <<>>
             THEN Return(p, DetectDone(l))
             ELSE Goto(p, "dn_mark") /\ loc' = [loc EXCEPT ![p] = l]
    /\ UNCHANGED <<tables, now, pre>>

\* The marking statement if it also took the shift away from its guard.
DetectMarkSearching_Unassigns(p) ==
    /\ pc[p] = "dn_mark"
    /\ shifts' = [shifts EXCEPT ![loc[p].todo[1].id] =
                    [@ EXCEPT !.replacement_status = "searching", !.guard_id = ""]]
    /\ Goto(p, "dn_guards")
    /\ UNCHANGED <<side_tables, firearms, firearm_allocations, guard_firearm_permits,
                   training_records, armored_cars, trips, attendance,
                   notifications, guard_availability, now, loc, pre>>

\* Step 2, per row: UPDATE shifts SET replacement_status = 'searching' WHERE id = $1
DetectMarkSearching(p) ==
    /\ pc[p] = "dn_mark"
    /\ shifts' = [shifts EXCEPT ![loc[p].todo[1].id].replacement_status = "searching"]
    /\ Goto(p, "dn_guards")
    /\ UNCHANGED <<side_tables, firearms, firearm_allocations, guard_firearm_permits,
                   training_records, armored_cars, trips, attendance,
                   notifications, guard_availability, now, loc, pre>>

\* The substitute query of the row, at most LIMIT 20 of its rows in any order;
\* with no substitute the loop moves to the next row or the scan ends.
DetectFindGuards(p) ==
    /\ pc[p] = "dn_guards"
    /\ LET C == AvailableGuards(loc[p].todo[1]) IN
       \E gs \in Picks(C, Min(CandidateLimit, Cardinality(C))) :
         IF gs # <<>>
         THEN Goto(p, "dn_notify") /\ loc' = [loc EXCEPT ![p].guards = gs]
         ELSE IF Len(loc[p].todo) > 1
         THEN Goto(p, "dn_mark") /\ loc' = [loc EXCEPT ![p].todo = Tail(@)]
         ELSE Return(p, DetectDone(loc[p]))
    /\ UNCHANGED <<tables, now, pre>>

\* Step 3, per substitute: INSERT INTO notifications (...); after the row's last
\* substitute the loop moves to the next row or the scan ends.
DetectNotify(p) ==
    /\ pc[p] = "dn_notify"
    /\ LET row == loc[p].todo[1]
           g == loc[p].guards[1]
           l == [loc[p] EXCEPT !.guards = Tail(@),
                               !.notified = Append(@, [guardId |-> g, shiftId |-> row.id])]
       IN  /\ notifications' = Append(notifications, NewNotification(g, row.id))
           /\ IF l.guards # <<>>
              THEN Goto(p, "dn_notify") /\ loc' = [loc EXCEPT ![p] = l]
              ELSE IF Len(l.todo) > 1
              THEN Goto(p, "dn_mark") /\ loc' = [loc EXCEPT ![p] = [l EXCEPT !.todo = Tail(@)]]
              ELSE Return(p, DetectDone(l))
    /\ UNCHANGED <<side_tables, firearms, firearm_allocations, guard_firearm_permits,
                   training_records, armored_cars, trips, shifts, attendance,
                   guard_availability, now, pre>>

\* The store fails the scan's next statement inside the loop (the mark, the
\* substitute query or a notification insert): map_err(...)? returns the
\* DatabaseError at once, and what the scan already wrote stays.
DetectStatementFails(p) ==
    /\ pc[p] \in {"dn_mark", "dn_guards", "dn_notify"}
    /\ Err(p, "DatabaseError", "scan statement failed")
    /\ UNCHANGED <<tables, now, pre>>

\* --------------------------------- guard_replacement.rs: accept_replacement
\* The request arrives with guardId, shiftId and an optional notificationId
\* (a set with at most one id).
BeginAccept(p, g, s, n) ==
    /\ pc[p] = "idle"
    /\ req' = [req EXCEPT ![p] =
                 [op |-> "accept_replacement", guard_id |-> g, shift_id |-> s,
                  notification_id |-> n]]
    /\ loc' = [loc EXCEPT ![p] = NoLoc]
    /\ pc' = [pc EXCEPT ![p] = "ar_guard"]
    /\ res' = [res EXCEPT ![p] = NoRes]
    /\ UNCHANGED <<tables, now>>

\* SELECT id FROM users WHERE id = $1
AcceptCheckGuard(p) ==
    /\ pc[p] = "ar_guard"
    /\ IF req[p].guard_id \notin UserIds
       THEN Err(p, "NotFound", "Guard not found")
       ELSE Goto(p, "ar_shift") /\ UNCHANGED loc
    /\ UNCHANGED <<tables, now, pre>>

\* SELECT id, replacement_status FROM shifts WHERE id = $1: the row must exist;
\* the replacement_status it carries is read by no later line.
AcceptSelectShift(p) ==
    /\ pc[p] = "ar_shift"
    /\ IF req[p].shift_id \notin DOMAIN shifts
       THEN Err(p, "NotFound", "Shift not found")
       ELSE Goto(p, "ar_update") /\ UNCHANGED loc
    /\ UNCHANGED <<tables, now, pre>>

\* UPDATE shifts SET guard_id = $1, replacement_status = 'accepted' WHERE id = $2
AcceptUpdateShift(p) ==
    /\ pc[p] = "ar_update"
    /\ shifts' = [shifts EXCEPT ![req[p].shift_id] =
                    [@ EXCEPT !.guard_id = req[p].guard_id,
                              !.replacement_status = "accepted"]]
    /\ Goto(p, IF req[p].notification_id # {} THEN "ar_notification" ELSE "ar_cancel")
    /\ UNCHANGED <<side_tables, firearms, firearm_allocations, guard_firearm_permits,
                   training_records, armored_cars, trips, attendance,
                   notifications, guard_availability, now, loc, pre>>

\* UPDATE notifications SET read = true WHERE id = $1, when a notificationId came.
AcceptMarkNotification(p) ==
    /\ pc[p] = "ar_notification"
    /\ notifications' =
         [i \in DOMAIN notifications |->
            IF i \in req[p].notification_id
            THEN [notifications[i] EXCEPT !.read = TRUE]
            ELSE notifications[i]]
    /\ Goto(p, "ar_cancel")
    /\ UNCHANGED <<side_tables, firearms, firearm_allocations, guard_firearm_permits,
                   training_records, armored_cars, trips, shifts, attendance,
                   guard_availability, now, loc, pre>>

\* The acceptance without its last statement: the shift's other pending
\* notifications stay unread.
AcceptCancelNotifications_NoCancel(p) ==
    /\ pc[p] = "ar_cancel"
    /\ Return(p, [op |-> "accept_replacement", kind |-> "Ok",
                  shiftId |-> req[p].shift_id, guardId |-> req[p].guard_id])
    /\ UNCHANGED <<tables, now, pre>>

\* UPDATE notifications SET read = true WHERE related_shift_id = $1
\*   AND type = 'replacement_request' AND read = false, then 200 OK.
AcceptCancelNotifications(p) ==
    /\ pc[p] = "ar_cancel"
    /\ notifications' =
         [i \in DOMAIN notifications |->
            IF /\ notifications[i].related_shift_id = req[p].shift_id
               /\ notifications[i].type = "replacement_request"
               /\ ~notifications[i].read
            THEN [notifications[i] EXCEPT !.read = TRUE]
            ELSE notifications[i]]
    /\ Return(p, [op |-> "accept_replacement", kind |-> "Ok",
                  shiftId |-> req[p].shift_id, guardId |-> req[p].guard_id])
    /\ UNCHANGED <<side_tables, firearms, firearm_allocations, guard_firearm_permits,
                   training_records, armored_cars, trips, shifts, attendance,
                   guard_availability, now, pre>>

\* -------------------------------- guard_replacement.rs: request_replacement
\* The request arrives; an empty field is refused before any query.
BeginRequestReplacement(p, orig, repl, s) ==
    /\ pc[p] = "idle"
    /\ req' = [req EXCEPT ![p] =
                 [op |-> "request_replacement", original_guard_id |-> orig,
                  replacement_guard_id |-> repl, shift_id |-> s]]
    /\ loc' = [loc EXCEPT ![p] = NoLoc]
    /\ IF orig = "" \/ repl = ""
       THEN /\ pc' = pc
            /\ res' = [res EXCEPT ![p] =
                         [op |-> "request_replacement", kind |-> "BadRequest",
                          reason |-> "ids are required"]]
       ELSE /\ pc' = [pc EXCEPT ![p] = "rr_original"]
            /\ res' = [res EXCEPT ![p] = NoRes]
    /\ UNCHANGED <<tables, now>>

\* SELECT id FROM users WHERE id = $1 (the original guard)
RequestCheckOriginal(p) ==
    /\ pc[p] = "rr_original"
    /\ IF req[p].original_guard_id \notin UserIds
       THEN Err(p, "NotFound", "Original guard not found")
       ELSE Goto(p, "rr_replacement") /\ UNCHANGED loc
    /\ UNCHANGED <<tables, now, pre>>

\* SELECT id FROM users WHERE id = $1 (the replacement guard)
RequestCheckReplacement(p) ==
    /\ pc[p] = "rr_replacement"
    /\ IF req[p].replacement_guard_id \notin UserIds
       THEN Err(p, "NotFound", "Replacement guard not found")
       ELSE Goto(p, "rr_shift") /\ UNCHANGED loc
    /\ UNCHANGED <<tables, now, pre>>

\* SELECT id FROM shifts WHERE id = $1
RequestSelectShift(p) ==
    /\ pc[p] = "rr_shift"
    /\ IF req[p].shift_id \notin DOMAIN shifts
       THEN Err(p, "NotFound", "Shift not found")
       ELSE Goto(p, "rr_update") /\ UNCHANGED loc
    /\ UNCHANGED <<tables, now, pre>>

\* UPDATE shifts SET guard_id = $1 WHERE id = $2, then 200 OK.
RequestUpdateShift(p) ==
    /\ pc[p] = "rr_update"
    /\ shifts' = [shifts EXCEPT ![req[p].shift_id].guard_id =
                                    req[p].replacement_guard_id]
    /\ Return(p, [op |-> "request_replacement", kind |-> "Ok"])
    /\ UNCHANGED <<side_tables, firearms, firearm_allocations, guard_firearm_permits,
                   training_records, armored_cars, trips, attendance,
                   notifications, guard_availability, now, pre>>

\* -------------------------------------- guard_replacement.rs: update_shift
BeginUpdateShift(p, s, g, start, end, site) ==
    /\ pc[p] = "idle"
    /\ req' = [req EXCEPT ![p] =
                 [op |-> "update_shift", shift_id |-> s, guard_id |-> g,
                  start_time |-> start, end_time |-> end, client_site |-> site]]
    /\ loc' = [loc EXCEPT ![p] = NoLoc]
    /\ pc' = [pc EXCEPT ![p] = "us_select"]
    /\ res' = [res EXCEPT ![p] = NoRes]
    /\ UNCHANGED <<tables, now>>

\* SELECT id FROM shifts WHERE id = $1
UpdateShiftSelect(p) ==
    /\ pc[p] = "us_select"
    /\ IF req[p].shift_id \notin DOMAIN shifts
       THEN Err(p, "NotFound", "Shift not found")
       ELSE Goto(p, "us_update") /\ UNCHANGED loc
    /\ UNCHANGED <<tables, now, pre>>

\* The rewrite if it also cleared the shift's replacement_status.
UpdateShiftWrite_ClearsReplacement(p) ==
    /\ pc[p] = "us_update"
    /\ IF req[p].guard_id \notin UserIds
       THEN /\ Err(p, "DatabaseError", "Failed to update shift")
            /\ UNCHANGED shifts
       ELSE /\ shifts' = [shifts EXCEPT ![req[p].shift_id] =
                            [@ EXCEPT !.guard_id = req[p].guard_id,
                                      !.start_time = req[p].start_time,
                                      !.end_time = req[p].end_time,
                                      !.client_site = req[p].client_site,
                                      !.replacement_status = NULL]]
            /\ Return(p, [op |-> "update_shift", kind |-> "Ok",
                          shiftId |-> req[p].shift_id])
    /\ UNCHANGED <<side_tables, firearms, firearm_allocations, guard_firearm_permits,
                   training_records, armored_cars, trips, attendance,
                   notifications, guard_availability, now, pre>>

\* UPDATE shifts SET guard_id = $1, start_time = $2, end_time = $3,
\*   client_site = $4 WHERE id = $5, then 200 OK; the foreign key on guard_id
\* refuses a guard that is not in users.
UpdateShiftWrite(p) ==
    /\ pc[p] = "us_update"
    /\ IF req[p].guard_id \notin UserIds
       THEN /\ Err(p, "DatabaseError", "Failed to update shift")
            /\ UNCHANGED shifts
       ELSE /\ shifts' = [shifts EXCEPT ![req[p].shift_id] =
                            [@ EXCEPT !.guard_id = req[p].guard_id,
                                      !.start_time = req[p].start_time,
                                      !.end_time = req[p].end_time,
                                      !.client_site = req[p].client_site]]
            /\ Return(p, [op |-> "update_shift", kind |-> "Ok",
                          shiftId |-> req[p].shift_id])
    /\ UNCHANGED <<side_tables, firearms, firearm_allocations, guard_firearm_permits,
                   training_records, armored_cars, trips, attendance,
                   notifications, guard_availability, now, pre>>

\* ------------------------------------------------ permits.rs, training.rs
\* A handler of one statement runs in one step: request, statement, response.
Answer(p, q, r) ==
    /\ pc[p] = "idle"
    /\ req' = [req EXCEPT ![p] = q]
    /\ res' = [res EXCEPT ![p] = r]
    /\ UNCHANGED <<pc, loc>>

\* create_guard_permit: INSERT INTO guard_firearm_permits (...); the status is
\* the payload's, 'active' when it has none.
CreateGuardPermit(p, g, status, expiry) ==
    /\ guard_firearm_permits' =
         Append(guard_firearm_permits,
                [guard_id |-> g, status |-> status, expiry_date |-> expiry])
    /\ Answer(p, [op |-> "create_guard_permit", guard_id |-> g],
              [op |-> "create_guard_permit", kind |-> "Created",
               permitId |-> Len(guard_firearm_permits) + 1])
    /\ UNCHANGED <<side_tables, firearms, firearm_allocations, training_records, armored_cars,
                   trips, shifts, attendance, notifications, guard_availability, now>>

\* revoke_permit: UPDATE guard_firearm_permits SET status = 'revoked' WHERE id = $1;
\* NotFound when no row was affected.
RevokePermit(p, id) ==
    /\ guard_firearm_permits' =
         [i \in DOMAIN guard_firearm_permits |->
            IF i = id THEN [guard_firearm_permits[i] EXCEPT !.status = "revoked"]
            ELSE guard_firearm_permits[i]]
    /\ Answer(p, [op |-> "revoke_permit", permit_id |-> id],
              [op |-> "revoke_permit",
               kind |-> IF id \in DOMAIN guard_firearm_permits THEN "Ok" ELSE "NotFound"])
    /\ UNCHANGED <<side_tables, firearms, firearm_allocations, training_records, armored_cars,
                   trips, shifts, attendance, notifications, guard_availability, now>>

\* auto_expire_permits: UPDATE guard_firearm_permits SET status = 'expired'
\*   WHERE status = 'active' AND expiry_date < NOW()
AutoExpirePermits(p) ==
    /\ guard_firearm_permits' =
         [i \in DOMAIN guard_firearm_permits |->
            IF /\ guard_firearm_permits[i].status = "active"
               /\ guard_firearm_permits[i].expiry_date < now
            THEN [guard_firearm_permits[i] EXCEPT !.status = "expired"]
            ELSE guard_firearm_permits[i]]
    /\ Answer(p, [op |-> "auto_expire_permits"],
              [op |-> "auto_expire_permits", kind |-> "Ok"])
    /\ UNCHANGED <<side_tables, firearms, firearm_allocations, training_records, armored_cars,
                   trips, shifts, attendance, notifications, guard_availability, now>>

\* create_training_record: INSERT INTO training_records (..., 'valid', ...);
\* expiry_date is optional.
CreateTrainingRecord(p, g, type, expiry) ==
    /\ training_records' =
         Append(training_records,
                [guard_id |-> g, training_type |-> type, status |-> "valid",
                 expiry_date |-> expiry])
    /\ Answer(p, [op |-> "create_training_record", guard_id |-> g],
              [op |-> "create_training_record", kind |-> "Created"])
    /\ UNCHANGED <<side_tables, firearms, firearm_allocations, guard_firearm_permits, armored_cars,
                   trips, shifts, attendance, notifications, guard_availability, now>>

\* get_guard_training, its first statement: UPDATE training_records
\*   SET status = 'expired' WHERE status = 'valid'
\*   AND expiry_date IS NOT NULL AND expiry_date < NOW()
GetGuardTraining(p, g) ==
    /\ training_records' =
         [i \in DOMAIN training_records |->
            IF /\ training_records[i].status = "valid"
               /\ training_records[i].expiry_date # NullTime
               /\ training_records[i].expiry_date < now
            THEN [training_records[i] EXCEPT !.status = "expired"]
            ELSE training_records[i]]
    /\ Answer(p, [op |-> "get_guard_training", guard_id |-> g],
              [op |-> "get_guard_training", kind |-> "Ok"])
    /\ UNCHANGED <<side_tables, firearms, firearm_allocations, guard_firearm_permits, armored_cars,
                   trips, shifts, attendance, notifications, guard_availability, now>>

\* Time passes: one tick of the clock NOW() reads, a grace period long.
Tick ==
    /\ now < MaxTicks * TickMinutes
    /\ now' = now + TickMinutes
    /\ UNCHANGED <<tables, clients, pre>>

\* ------------------------------------------ merit.rs: calculate_merit_score
\* The handler computes in f64; the model keeps every score as an exact
\* fraction [num, den] in lowest terms with den > 0 and compares fractions by
\* cross multiplication.
RECURSIVE GCD(_, _)
GCD(a, b) == IF b = 0 THEN a ELSE GCD(b, a % b)

Fraction(n, d) ==
    LET g == GCD(IF n < 0 THEN -n ELSE n, d)
    IN  [num |-> n \div g, den |-> d \div g]

AtLeast(x, k) == x.num >= k * x.den

SameScore(x, y) == x.num * y.den = y.num * x.den

\* x.min(100.0).max(0.0)
Clamped(x) ==
    IF x.num > 100 * x.den THEN Fraction(100, 1)
    ELSE IF x.num < 0 THEN Fraction(0, 1)
    ELSE x

RECURSIVE SumOf(_)
SumOf(s) == IF s = <<>> THEN 0 ELSE Head(s) + SumOf(Tail(s))

\* SELECT COUNT(CASE WHEN status = 'completed' THEN 1 END) FROM attendance
\*   WHERE guard_id = $1
CompletedAttendance(g) ==
    Cardinality({i \in DOMAIN attendance :
                   attendance[i].guard_id = g /\ attendance[i].status = "completed"})

\* SELECT COUNT(*) FROM shifts WHERE guard_id = $1
TotalShifts(g) == Cardinality({i \in DOMAIN shifts : shifts[i].guard_id = g})

\* SELECT COUNT(*) FROM punctuality_records WHERE guard_id = $1 AND is_on_time = true
OnTimeCount(g) ==
    Cardinality({i \in DOMAIN punctuality_records :
                   punctuality_records[i].guard_id = g /\ punctuality_records[i].is_on_time})

\* SELECT COUNT(*) FROM punctuality_records WHERE guard_id = $1
TotalPunctualityRecords(g) ==
    Cardinality({i \in DOMAIN punctuality_records : punctuality_records[i].guard_id = g})

\* SELECT COUNT(*) FROM punctuality_records WHERE guard_id = $1 AND status = $2
PunctualityCount(g, status) ==
    Cardinality({i \in DOMAIN punctuality_records :
                   /\ punctuality_records[i].guard_id = g
                   /\ punctuality_records[i].status = status})

\* The ratings of the guard's evaluations, for AVG(rating) and COUNT(*).
Ratings(g) ==
    LET rows == SelectSeq(client_evaluations, LAMBDA e : e.guard_id = g)
    IN  [i \in DOMAIN rows |-> rows[i].rating]

\* attendance_score: completed / total_shifts * 100, or 0 without shifts.
AttendanceScore(g) ==
    IF TotalShifts(g) > 0
    THEN Fraction(100 * CompletedAttendance(g), TotalShifts(g))
    ELSE Fraction(0, 1)

\* punctuality_score: on_time / total records * 100, or 0 without records.
PunctualityScore(g) ==
    IF TotalPunctualityRecords(g) > 0
    THEN Fraction(100 * OnTimeCount(g), TotalPunctualityRecords(g))
    ELSE Fraction(0, 1)

\* client_rating: (AVG(rating) / 5) * 100, or 0 when AVG is NULL.
ClientRating(g) ==
    IF Len(Ratings(g)) > 0
    THEN Fraction(100 * SumOf(Ratings(g)), 5 * Len(Ratings(g)))
    ELSE Fraction(0, 1)

\* attendance * 0.30 + punctuality * 0.35 + client_rating * 0.35
WeightedScore(a, q, c) ==
    Fraction(30 * a.num * q.den * c.den + 35 * q.num * a.den * c.den
               + 35 * c.num * a.den * q.den,
             100 * a.den * q.den * c.den)

\* The rank match with every threshold one point lower.
RankOf_ThresholdsOneLower(x) ==
    IF AtLeast(x, 89) THEN "Gold"
    ELSE IF AtLeast(x, 79) THEN "Silver"
    ELSE IF AtLeast(x, 69) THEN "Bronze"
    ELSE "Standard"

\* The rank of a score: a match on the score before it is clamped.
RankOf(x) ==
    IF AtLeast(x, 90) THEN "Gold"
    ELSE IF AtLeast(x, 80) THEN "Silver"
    ELSE IF AtLeast(x, 70) THEN "Bronze"
    ELSE "Standard"

\* The columns both the UPDATE and the INSERT of step 7 write.
MeritRow(g, l) ==
    [guard_id |-> g, attendance_score |-> l.attendance_score,
     punctuality_score |-> l.punctuality_score, client_rating |-> l.client_rating,
     overall_score |-> l.overall_score, rank |-> l.rank,
     total_shifts_completed |-> l.total_shifts, on_time_count |-> l.on_time_count,
     late_count |-> l.late_count, no_show_count |-> l.no_show_count,
     evaluation_count |-> l.eval_count]

\* The response: the scores clamped to [0, 100], the rank as computed.
MeritScoreResponse(g, l) ==
    [op |-> "calculate_merit_score", kind |-> "Ok", guard_id |-> g,
     overall_score |-> Clamped(l.overall_score), rank |-> l.rank,
     attendance_score |-> Clamped(l.attendance_score),
     punctuality_score |-> Clamped(l.punctuality_score),
     client_rating |-> Clamped(l.client_rating)]

BeginCalculateMerit(p, g) ==
    /\ pc[p] = "idle"
    /\ req' = [req EXCEPT ![p] = [op |-> "calculate_merit_score", guard_id |-> g]]
    /\ loc' = [loc EXCEPT ![p] = NoLoc]
    /\ pc' = [pc EXCEPT ![p] = "ms_history"]
    /\ res' = [res EXCEPT ![p] = NoRes]
    /\ UNCHANGED <<tables, now>>

\* Steps 1-6: the counting queries and the scores computed from them.  No
\* handler of the model writes the history tables while a calculation runs, so
\* the queries are one step.
MeritReadHistory(p) ==
    /\ pc[p] = "ms_history"
    /\ LET g == req[p].guard_id
           a == AttendanceScore(g)
           q == PunctualityScore(g)
           c == ClientRating(g)
           overall == WeightedScore(a, q, c)
       IN  loc' = [loc EXCEPT ![p] =
                     [todo |-> <<>>, attendance_score |-> a, punctuality_score |-> q,
                      client_rating |-> c, overall_score |-> overall,
                      rank |-> RankOf(overall), total_shifts |-> TotalShifts(g),
                      on_time_count |-> OnTimeCount(g),
                      late_count |-> PunctualityCount(g, "late"),
                      no_show_count |-> PunctualityCount(g, "no_show"),
                      eval_count |-> Len(Ratings(g))]]
    /\ Goto(p, "ms_select")
    /\ UNCHANGED <<tables, now, pre>>

\* Step 7: SELECT id FROM guard_merit_scores WHERE guard_id = $1
MeritSelect(p) ==
    /\ pc[p] = "ms_select"
    /\ loc' = [loc EXCEPT ![p] =
                 [k \in DOMAIN loc[p] \cup {"existing"} |->
                    IF k = "existing"
                    THEN \E i \in DOMAIN guard_merit_scores :
                           guard_merit_scores[i].guard_id = req[p].guard_id
                    ELSE loc[p][k]]]
    /\ Goto(p, "ms_write")
    /\ UNCHANGED <<tables, now, pre>>

\* Step 7: UPDATE guard_merit_scores ... WHERE guard_id = $1 when a row was
\* found, INSERT otherwise; the INSERT is refused when guard_id is not in users
\* (foreign key) or already has a row (guard_id is UNIQUE).  Then 200 OK.
MeritWrite(p) ==
    /\ pc[p] = "ms_write"
    /\ LET g == req[p].guard_id
           row == MeritRow(g, loc[p])
       IN  IF loc[p].existing
           THEN /\ guard_merit_scores' =
                     [i \in DOMAIN guard_merit_scores |->
                        IF guard_merit_scores[i].guard_id = g THEN row
                        ELSE guard_merit_scores[i]]
                /\ Return(p, MeritScoreResponse(g, loc[p]))
           ELSE IF \/ g \notin UserIds
                   \/ \E i \in DOMAIN guard_merit_scores :
                        guard_merit_scores[i].guard_id = g
           THEN /\ Err(p, "DatabaseError", "Failed to create merit score")
                /\ UNCHANGED guard_merit_scores
           ELSE /\ guard_merit_scores' = Append(guard_merit_scores, row)
                /\ Return(p, MeritScoreResponse(g, loc[p]))
    /\ UNCHANGED <<firearms, firearm_allocations, guard_firearm_permits,
                   training_records, armored_cars, trips, shifts, attendance,
                   notifications, guard_availability, car_allocations,
                   punctuality_records, client_evaluations, firearm_maintenance,
                   now, pre>>

\* --------------------------------- armored_cars.rs: issue_car, return_car
\* The row INSERT INTO car_allocations adds: status 'active', return_date NULL.
NewCarAllocation(v, client) ==
    [car_id |-> v, client_id |-> client, status |-> "active", return_date |-> NullTime]

BeginIssueCar(p, v, client) ==
    /\ pc[p] = "idle"
    /\ req' = [req EXCEPT ![p] = [op |-> "issue_car", car_id |-> v, client_id |-> client]]
    /\ loc' = [loc EXCEPT ![p] = NoLoc]
    /\ pc' = [pc EXCEPT ![p] = "ic_insert"]
    /\ res' = [res EXCEPT ![p] = NoRes]
    /\ UNCHANGED <<tables, now>>

\* INSERT INTO car_allocations (...) VALUES (..., 'active'): the handler's first
\* statement, with no test of the car before it. car_allocations.car_id
\* REFERENCES armored_cars(id): a car that does not exist is refused.
IssueCarInsert(p) ==
    /\ pc[p] = "ic_insert"
    /\ IF req[p].car_id \notin DOMAIN armored_cars
       THEN /\ Err(p, "DatabaseError", "Failed to issue car")
            /\ UNCHANGED car_allocations
       ELSE /\ car_allocations' =
                 Append(car_allocations, NewCarAllocation(req[p].car_id, req[p].client_id))
            /\ loc' = [loc EXCEPT ![p] = [todo |-> <<>>, id |-> Len(car_allocations) + 1]]
            /\ Goto(p, "ic_update")
    /\ UNCHANGED <<guard_merit_scores, punctuality_records, client_evaluations,
                   firearm_maintenance,
                   firearms, firearm_allocations, guard_firearm_permits,
                   training_records, armored_cars, trips, shifts, attendance,
                   notifications, guard_availability, now, pre>>

\* UPDATE armored_cars SET status = 'allocated' WHERE id = $2, then 201 Created.
IssueCarUpdateCar(p) ==
    /\ pc[p] = "ic_update"
    /\ armored_cars' = [armored_cars EXCEPT ![req[p].car_id] = "allocated"]
    /\ Return(p, [op |-> "issue_car", kind |-> "Created", allocationId |-> loc[p].id])
    /\ UNCHANGED <<side_tables, firearms, firearm_allocations, guard_firearm_permits,
                   training_records, trips, shifts, attendance, notifications,
                   guard_availability, now, pre>>

BeginReturnCar(p, a) ==
    /\ pc[p] = "idle"
    /\ req' = [req EXCEPT ![p] = [op |-> "return_car", allocation_id |-> a]]
    /\ loc' = [loc EXCEPT ![p] = NoLoc]
    /\ pc' = [pc EXCEPT ![p] = "rc_select"]
    /\ res' = [res EXCEPT ![p] = NoRes]
    /\ UNCHANGED <<tables, now>>

\* SELECT ... FROM car_allocations WHERE id = $1
ReturnCarSelect(p) ==
    /\ pc[p] = "rc_select"
    /\ IF req[p].allocation_id \notin DOMAIN car_allocations
       THEN Err(p, "NotFound", "Allocation not found")
       ELSE /\ loc' = [loc EXCEPT ![p] =
                         [todo |-> <<>>,
                          car_id |-> car_allocations[req[p].allocation_id].car_id]]
            /\ Goto(p, "rc_update_alloc")
    /\ UNCHANGED <<tables, now, pre>>

\* UPDATE car_allocations SET return_date = CURRENT_TIMESTAMP,
\*   status = 'returned' WHERE id = $2
ReturnCarUpdateAllocation(p) ==
    /\ pc[p] = "rc_update_alloc"
    /\ car_allocations' =
         [car_allocations EXCEPT ![req[p].allocation_id] =
             [@ EXCEPT !.status = "returned", !.return_date = now]]
    /\ Goto(p, "rc_update_car")
    /\ UNCHANGED <<guard_merit_scores, punctuality_records, client_evaluations, loc,
                   firearm_maintenance,
                   firearms, firearm_allocations, guard_firearm_permits,
                   training_records, armored_cars, trips, shifts, attendance,
                   notifications, guard_availability, now, pre>>

\* UPDATE armored_cars SET status = 'available' WHERE id = $2, then 200 OK.
ReturnCarUpdateCar(p) ==
    /\ pc[p] = "rc_update_car"
    /\ armored_cars' = [armored_cars EXCEPT ![loc[p].car_id] = "available"]
    /\ Return(p, [op |-> "return_car", kind |-> "Ok"])
    /\ UNCHANGED <<side_tables, firearms, firearm_allocations, guard_firearm_permits,
                   training_records, trips, shifts, attendance, notifications,
                   guard_availability, now, pre>>

\* ------------------------------------- analytics.rs: update_mission_status
\* DATE(timestamp): the day a time (in minutes) falls on.
MinutesPerDay == 1440

DateOf(t) == t \div MinutesPerDay

\* SELECT s.guard_id FROM shifts s JOIN trips t
\*   ON DATE(s.start_time) = DATE(t.start_time) WHERE t.id = $1
MissionDayGuards(m) ==
    IF m \notin DOMAIN trips THEN {}
    ELSE {shifts[i].guard_id : i \in
            {j \in DOMAIN shifts :
               DateOf(shifts[j].start_time) = DateOf(trips[m].start_time)}}

BeginUpdateMissionStatus(p, m, status) ==
    /\ pc[p] = "idle"
    /\ req' = [req EXCEPT ![p] =
                 [op |-> "update_mission_status", mission_id |-> m, status |-> status]]
    /\ loc' = [loc EXCEPT ![p] = NoLoc]
    /\ pc' = [pc EXCEPT ![p] = "um_trip"]
    /\ res' = [res EXCEPT ![p] = NoRes]
    /\ UNCHANGED <<tables, now>>

\* UPDATE trips SET status = $1 WHERE id = $2: no row need match. Any status
\* other than completed ends the handler here.
MissionStatusUpdateTrip(p) ==
    /\ pc[p] = "um_trip"
    /\ trips' = [i \in DOMAIN trips |->
                   IF i = req[p].mission_id
                   THEN [trips[i] EXCEPT !.status = req[p].status]
                   ELSE trips[i]]
    /\ IF req[p].status = "completed"
       THEN Goto(p, "um_car") /\ UNCHANGED loc
       ELSE Return(p, [op |-> "update_mission_status", kind |-> "Ok"])
    /\ UNCHANGED <<side_tables, firearms, firearm_allocations, guard_firearm_permits,
                   training_records, armored_cars, shifts, attendance,
                   notifications, guard_availability, now, pre>>

\* UPDATE armored_cars SET status = 'operational'
\*   WHERE id IN (SELECT car_id FROM trips WHERE id = $1)
MissionStatusReleaseCar(p) ==
    /\ pc[p] = "um_car"
    /\ armored_cars' =
         [v \in DOMAIN armored_cars |->
            IF req[p].mission_id \in DOMAIN trips /\ trips[req[p].mission_id].car_id = v
            THEN "operational" ELSE armored_cars[v]]
    /\ Goto(p, "um_firearms")
    /\ UNCHANGED <<side_tables, loc, firearms, firearm_allocations, guard_firearm_permits,
                   training_records, trips, shifts, attendance, notifications,
                   guard_availability, now, pre>>

\* UPDATE firearms SET status = 'available' WHERE id IN (the firearms of the
\* active allocations of guards with a shift on the trip's day)
MissionStatusReleaseFirearms(p) ==
    /\ pc[p] = "um_firearms"
    /\ firearms' =
         [f \in DOMAIN firearms |->
            IF \E i \in DOMAIN firearm_allocations :
                 /\ firearm_allocations[i].firearm_id = f
                 /\ firearm_allocations[i].status = "active"
                 /\ firearm_allocations[i].guard_id \in MissionDayGuards(req[p].mission_id)
            THEN "available" ELSE firearms[f]]
    /\ Goto(p, "um_allocations")
    /\ UNCHANGED <<side_tables, loc, firearm_allocations, guard_firearm_permits,
                   training_records, armored_cars, trips, shifts, attendance,
                   notifications, guard_availability, now, pre>>

\* UPDATE firearm_allocations SET status = 'returned' WHERE guard_id IN (guards
\* with a shift on the trip's day) AND status = 'active': return_date is not
\* among the columns set. Then 200 OK.
MissionStatusCloseAllocations(p) ==
    /\ pc[p] = "um_allocations"
    /\ firearm_allocations' =
         [i \in DOMAIN firearm_allocations |->
            IF /\ firearm_allocations[i].status = "active"
               /\ firearm_allocations[i].guard_id \in MissionDayGuards(req[p].mission_id)
            THEN [firearm_allocations[i] EXCEPT !.status = "returned"]
            ELSE firearm_allocations[i]]
    /\ Return(p, [op |-> "update_mission_status", kind |-> "Ok"])
    /\ UNCHANGED <<side_tables, firearms, guard_firearm_permits, training_records,
                   armored_cars, trips, shifts, attendance, notifications,
                   guard_availability, now, pre>>

\* ------------ firearm_maintenance.rs: schedule_maintenance, complete_maintenance
BeginScheduleMaintenance(p, f) ==
    /\ pc[p] = "idle"
    /\ req' = [req EXCEPT ![p] = [op |-> "schedule_maintenance", firearm_id |-> f]]
    /\ loc' = [loc EXCEPT ![p] = NoLoc]
    /\ pc' = [pc EXCEPT ![p] = "sm_insert"]
    /\ res' = [res EXCEPT ![p] = NoRes]
    /\ UNCHANGED <<tables, now>>

\* INSERT INTO firearm_maintenance (...) VALUES (..., 'pending', ...): the
\* handler's first statement, with no test of the firearm before it.
\* firearm_maintenance.firearm_id REFERENCES firearms(id).
ScheduleMaintenanceInsert(p) ==
    /\ pc[p] = "sm_insert"
    /\ IF req[p].firearm_id \notin DOMAIN firearms
       THEN /\ Err(p, "DatabaseError", "Failed to schedule maintenance")
            /\ UNCHANGED firearm_maintenance
       ELSE /\ firearm_maintenance' =
                 Append(firearm_maintenance,
                        [firearm_id |-> req[p].firearm_id, status |-> "pending",
                         completion_date |-> NullTime])
            /\ loc' = [loc EXCEPT ![p] = [todo |-> <<>>, id |-> Len(firearm_maintenance) + 1]]
            /\ Goto(p, "sm_update")
    /\ UNCHANGED <<car_allocations, guard_merit_scores, punctuality_records,
                   client_evaluations, firearms, firearm_allocations,
                   guard_firearm_permits, training_records, armored_cars, trips,
                   shifts, attendance, notifications, guard_availability, now, pre>>

\* UPDATE firearms SET status = 'maintenance' WHERE id = $1, then 201 Created.
ScheduleMaintenanceUpdateFirearm(p) ==
    /\ pc[p] = "sm_update"
    /\ firearms' = [firearms EXCEPT ![req[p].firearm_id] = "maintenance"]
    /\ Return(p, [op |-> "schedule_maintenance", kind |-> "Created", id |-> loc[p].id])
    /\ UNCHANGED <<side_tables, firearm_allocations, guard_firearm_permits,
                   training_records, armored_cars, trips, shifts, attendance,
                   notifications, guard_availability, now, pre>>

BeginCompleteMaintenance(p, m) ==
    /\ pc[p] = "idle"
    /\ req' = [req EXCEPT ![p] = [op |-> "complete_maintenance", maintenance_id |-> m]]
    /\ loc' = [loc EXCEPT ![p] = NoLoc]
    /\ pc' = [pc EXCEPT ![p] = "cm_select"]
    /\ res' = [res EXCEPT ![p] = NoRes]
    /\ UNCHANGED <<tables, now>>

\* SELECT firearm_id FROM firearm_maintenance WHERE id = $1
CompleteMaintenanceSelect(p) ==
    /\ pc[p] = "cm_select"
    /\ IF req[p].maintenance_id \notin DOMAIN firearm_maintenance
       THEN Err(p, "NotFound", "Maintenance record not found")
       ELSE /\ loc' = [loc EXCEPT ![p] =
                         [todo |-> <<>>,
                          firearm_id |-> firearm_maintenance[req[p].maintenance_id].firearm_id]]
            /\ Goto(p, "cm_update")
    /\ UNCHANGED <<tables, now, pre>>

\* UPDATE firearm_maintenance SET status = 'completed', completion_date = $1
\*   WHERE id = $5
CompleteMaintenanceUpdate(p) ==
    /\ pc[p] = "cm_update"
    /\ firearm_maintenance' =
         [firearm_maintenance EXCEPT ![req[p].maintenance_id] =
             [@ EXCEPT !.status = "completed", !.completion_date = now]]
    /\ Goto(p, "cm_firearm")
    /\ UNCHANGED <<car_allocations, guard_merit_scores, punctuality_records,
                   client_evaluations, loc, firearms, firearm_allocations,
                   guard_firearm_permits, training_records, armored_cars, trips,
                   shifts, attendance, notifications, guard_availability, now, pre>>

\* UPDATE firearms SET status = 'available' WHERE id = $1, then 200 OK.
CompleteMaintenanceRestoreFirearm(p) ==
    /\ pc[p] = "cm_firearm"
    /\ firearms' = [firearms EXCEPT ![loc[p].firearm_id] = "available"]
    /\ Return(p, [op |-> "complete_maintenance", kind |-> "Ok"])
    /\ UNCHANGED <<side_tables, firearm_allocations, guard_firearm_permits,
                   training_records, armored_cars, trips, shifts, attendance,
                   notifications, guard_availability, now, pre>>

\* ---------------- armored_cars.rs: add_armored_car, update_armored_car
\* utils::generate_id(): the ids new cars get, in the order they are created.
CarIds == <<"v1", "v2", "v3", "v4", "v5", "v6">>

NewCarId == CarIds[Cardinality(DOMAIN armored_cars) + 1]

BeginAddCar(p) ==
    /\ pc[p] = "idle"
    /\ req' = [req EXCEPT ![p] = [op |-> "add_armored_car"]]
    /\ loc' = [loc EXCEPT ![p] = NoLoc]
    /\ pc' = [pc EXCEPT ![p] = "ac_insert"]
    /\ res' = [res EXCEPT ![p] = NoRes]
    /\ UNCHANGED <<tables, now>>

\* INSERT INTO armored_cars (..., status) VALUES (..., 'available'), then 201.
AddCarInsert(p) ==
    /\ pc[p] = "ac_insert"
    /\ armored_cars' = armored_cars @@ (NewCarId :> "available")
    /\ Return(p, [op |-> "add_armored_car", kind |-> "Created", carId |-> NewCarId])
    /\ UNCHANGED <<side_tables, firearms, firearm_allocations, guard_firearm_permits,
                   training_records, trips, shifts, attendance, notifications,
                   guard_availability, now, pre>>

BeginUpdateCar(p, v, status) ==
    /\ pc[p] = "idle"
    /\ req' = [req EXCEPT ![p] = [op |-> "update_armored_car", car_id |-> v,
                                  status |-> status]]
    /\ loc' = [loc EXCEPT ![p] = NoLoc]
    /\ pc' = [pc EXCEPT ![p] = "uc_select"]
    /\ res' = [res EXCEPT ![p] = NoRes]
    /\ UNCHANGED <<tables, now>>

\* SELECT ... FROM armored_cars WHERE id = $1
UpdateCarSelect(p) ==
    /\ pc[p] = "uc_select"
    /\ IF req[p].car_id \notin DOMAIN armored_cars
       THEN Err(p, "NotFound", "Armored car not found")
       ELSE Goto(p, "uc_update") /\ UNCHANGED loc
    /\ UNCHANGED <<tables, now, pre>>

\* UPDATE armored_cars SET status = $1, ... WHERE id = $5, with the status the
\* payload carries.
UpdateCarWrite(p) ==
    /\ pc[p] = "uc_update"
    /\ armored_cars' = [armored_cars EXCEPT ![req[p].car_id] = req[p].status]
    /\ Return(p, [op |-> "update_armored_car", kind |-> "Ok"])
    /\ UNCHANGED <<side_tables, firearms, firearm_allocations, guard_firearm_permits,
                   training_records, trips, shifts, attendance, notifications,
                   guard_availability, now, pre>>

\* --------------------------------- trip_management.rs: update_trip_status
BeginUpdateTripStatus(p, t, status) ==
    /\ pc[p] = "idle"
    /\ req' = [req EXCEPT ![p] = [op |-> "update_trip_status", trip_id |-> t,
                                  status |-> status]]
    /\ loc' = [loc EXCEPT ![p] = NoLoc]
    /\ pc' = [pc EXCEPT ![p] = "ut_trip"]
    /\ res' = [res EXCEPT ![p] = NoRes]
    /\ UNCHANGED <<tables, now>>

\* UPDATE trips SET status = $1 WHERE id = $2; a status other than completed
\* and in_progress ends the handler here.
TripStatusUpdateTrip(p) ==
    /\ pc[p] = "ut_trip"
    /\ trips' = [i \in DOMAIN trips |->
                   IF i = req[p].trip_id
                   THEN [trips[i] EXCEPT !.status = req[p].status]
                   ELSE trips[i]]
    /\ IF req[p].status \in {"completed", "in_progress"}
       THEN Goto(p, "ut_car") /\ UNCHANGED loc
       ELSE Return(p, [op |-> "update_trip_status", kind |-> "Ok"])
    /\ UNCHANGED <<side_tables, firearms, firearm_allocations, guard_firearm_permits,
                   training_records, armored_cars, shifts, attendance,
                   notifications, guard_availability, now, pre>>

\* UPDATE armored_cars SET status = 'operational' (completed) or 'deployed'
\* (in_progress) WHERE id IN (SELECT car_id FROM trips WHERE id = $1)
TripStatusUpdateCar(p) ==
    /\ pc[p] = "ut_car"
    /\ armored_cars' =
         [v \in DOMAIN armored_cars |->
            IF req[p].trip_id \in DOMAIN trips /\ trips[req[p].trip_id].car_id = v
            THEN (IF req[p].status = "completed" THEN "operational" ELSE "deployed")
            ELSE armored_cars[v]]
    /\ Return(p, [op |-> "update_trip_status", kind |-> "Ok"])
    /\ UNCHANGED <<side_tables, firearms, firearm_allocations, guard_firearm_permits,
                   training_records, trips, shifts, attendance, notifications,
                   guard_availability, now, pre>>

\* ------------------------------------------------------- specifications
Idle == \A p \in Clients : pc[p] = "idle"

\* The time window every mission of the model asks for.
MissionStart == 4 * TickMinutes
MissionEnd == 8 * TickMinutes

\* Concurrent callers: each client sends one request, an issue_firearm without
\* force or an assign_mission, and the statements of the running handlers
\* interleave in every order.
RaceBeginIssue ==
    \E p \in Clients, f \in DOMAIN firearms, g \in MissionGuards :
        /\ req[p] = NoReq
        /\ BeginIssue(p, f, g, FALSE)
        /\ UNCHANGED pre

RaceBeginMission ==
    \E p \in Clients, g \in 0..MaxRequired, f \in 0..MaxRequired :
        /\ req[p] = NoReq
        /\ BeginMission(p, g, f, 0, MissionStart, MissionEnd)
        /\ UNCHANGED pre

NextAllocRace ==
    \/ RaceBeginIssue
    \/ RaceBeginMission
    \/ \E p \in Clients : IssueCheckFirearm(p)
    \/ \E p \in Clients : IssueCheckGuard(p)
    \/ \E p \in Clients : IssueCheckPermit(p)
    \/ \E p \in Clients : IssueCheckTraining(p)
    \/ \E p \in Clients : IssueInsertAllocation(p)
    \/ \E p \in Clients : IssueUpdateFirearm(p)
    \/ \E p \in Clients : MissionFindGuards(p)
    \/ \E p \in Clients : MissionFindFirearms(p)
    \/ \E p \in Clients : MissionFindVehicles(p)
    \/ \E p \in Clients : MissionWrite(p)

SpecAllocRace == Init /\ [][NextAllocRace]_vars

\* One caller at a time: a request begins when no handler is running, and the
\* store as it is then is remembered in pre.
SeqBeginMission ==
    /\ Idle
    /\ \E g \in 0..MaxRequired, f \in 0..MaxRequired, v \in 0..MaxRequired :
         /\ Len(shifts) + g <= MaxShifts
         /\ Len(trips) + v <= MaxTrips
         /\ BeginMission(1, g, f, v, MissionStart, MissionEnd)
    /\ pre' = Snapshot

\* assign_mission requests, each run to its response before the next begins;
\* any write statement may fail.
NextMission ==
    \/ SeqBeginMission
    \/ MissionFindGuards(1)
    \/ MissionFindFirearms(1)
    \/ MissionFindVehicles(1)
    \/ MissionWrite(1)
    \/ MissionWriteFails(1)

SpecMission == Init /\ [][NextMission]_vars

SeqBeginIssue ==
    /\ Idle
    /\ Len(firearm_allocations) < MaxAllocs
    /\ \E f \in DOMAIN firearms, g \in MissionGuards, force \in BOOLEAN :
         BeginIssue(1, f, g, force)
    /\ pre' = Snapshot

SeqBeginReturn ==
    /\ Idle
    /\ \E a \in DOMAIN firearm_allocations : BeginReturn(1, a)
    /\ pre' = Snapshot

SeqBeginFirearmMission ==
    /\ Idle
    /\ \E g \in 1..MaxRequired, f \in 1..MaxRequired :
         /\ Len(shifts) + g <= MaxShifts
         /\ Len(firearm_allocations) + Min(g, f) <= MaxAllocs
         /\ BeginMission(1, g, f, 0, MissionStart, MissionEnd)
    /\ pre' = Snapshot

\* issue_firearm (with and without force), return_firearm and assign_mission,
\* each run to its response before the next begins.
NextAllocSeq ==
    \/ SeqBeginIssue
    \/ SeqBeginReturn
    \/ SeqBeginFirearmMission
    \/ IssueCheckFirearm(1)
    \/ IssueCheckGuard(1)
    \/ IssueCheckPermit(1)
    \/ IssueCheckTraining(1)
    \/ IssueInsertAllocation(1)
    \/ IssueUpdateFirearm(1)
    \/ ReturnSelect(1)
    \/ ReturnUpdateAllocation(1)
    \/ ReturnUpdateFirearm(1)
    \/ MissionFindGuards(1)
    \/ MissionFindFirearms(1)
    \/ MissionFindVehicles(1)
    \/ MissionWrite(1)

SpecAllocSeq == Init /\ [][NextAllocSeq]_vars

\* The authorization gate, one caller at a time: permits and training records
\* are created, revoked and expired and time passes between issue_firearm
\* requests; the store starts with no permit and no training record, and with
\* one firearm in maintenance (firearm_maintenance.rs sets that status).
\* Every expiry date is one tick after the start, so that the clock is seen
\* before it, at it and after it.
InitGate ==
    /\ firearms = [f1 |-> "available", f2 |-> "maintenance"]
    /\ firearm_allocations = <<>>
    /\ guard_firearm_permits = <<>>
    /\ training_records = <<>>
    /\ armored_cars = [v1 |-> "operational", v2 |-> "available"]
    /\ trips = <<>>
    /\ shifts = <<>>
    /\ attendance = <<>>
    /\ notifications = <<>>
    /\ guard_availability = <<>>
    /\ car_allocations = <<>>
    /\ guard_merit_scores = <<>>
    /\ punctuality_records = <<>>
    /\ client_evaluations = <<>>
    /\ firearm_maintenance = <<>>
    /\ now = 0
    /\ pc = [p \in Clients |-> "idle"]
    /\ req = [p \in Clients |-> NoReq]
    /\ loc = [p \in Clients |-> NoLoc]
    /\ res = [p \in Clients |-> NoRes]
    /\ pre = NoSnapshot

GateBeginIssue ==
    /\ Idle
    /\ Len(firearm_allocations) < MaxGateAllocs
    /\ \E f \in {"f1", "f2", "f9"}, g \in {"g1", "g9"}, force \in BOOLEAN :
         BeginIssue(1, f, g, force)
    /\ pre' = Snapshot

GateCreatePermit ==
    /\ Idle
    /\ Len(guard_firearm_permits) < MaxPermits
    /\ CreateGuardPermit(1, "g1", "active", TickMinutes)
    /\ pre' = Snapshot

GateRevokePermit ==
    /\ Idle
    /\ \E id \in DOMAIN guard_firearm_permits : RevokePermit(1, id)
    /\ pre' = Snapshot

GateAutoExpirePermits == Idle /\ AutoExpirePermits(1) /\ pre' = Snapshot

GateCreateTraining ==
    /\ Idle
    /\ Len(training_records) < MaxTraining
    /\ \E type \in {"firearms_handling", "first_aid"},
          expiry \in {NullTime, TickMinutes} :
         CreateTrainingRecord(1, "g1", type, expiry)
    /\ pre' = Snapshot

GateGetGuardTraining == Idle /\ GetGuardTraining(1, "g1") /\ pre' = Snapshot

GateTick == Idle /\ Tick

NextGate ==
    \/ GateBeginIssue
    \/ GateCreatePermit
    \/ GateRevokePermit
    \/ GateAutoExpirePermits
    \/ GateCreateTraining
    \/ GateGetGuardTraining
    \/ GateTick
    \/ IssueCheckFirearm(1)
    \/ IssueCheckGuard(1)
    \/ IssueCheckPermit(1)
    \/ IssueCheckTraining(1)
    \/ IssueInsertAllocation(1)
    \/ IssueUpdateFirearm(1)

SpecGate == InitGate /\ [][NextGate]_vars

\* The roster, one caller at a time, at a clock one tick past the start of
\* time: shifts are created, guards check in and set their availability, the
\* no-show scan runs and guards accept replacement shifts. A shift starts at
\* the start of time, and is then exactly one grace period old, or at the
\* current tick, and is then not yet overdue; it lasts two ticks.
InitRoster ==
    /\ firearms = [f1 |-> "available", f2 |-> "available"]
    /\ firearm_allocations = <<>>
    /\ guard_firearm_permits = <<>>
    /\ training_records = <<>>
    /\ armored_cars = [v1 |-> "operational", v2 |-> "available"]
    /\ trips = <<>>
    /\ shifts = <<>>
    /\ attendance = <<>>
    /\ notifications = <<>>
    /\ guard_availability = <<>>
    /\ car_allocations = <<>>
    /\ guard_merit_scores = <<>>
    /\ punctuality_records = <<>>
    /\ client_evaluations = <<>>
    /\ firearm_maintenance = <<>>
    /\ now = TickMinutes
    /\ pc = [p \in Clients |-> "idle"]
    /\ req = [p \in Clients |-> NoReq]
    /\ loc = [p \in Clients |-> NoLoc]
    /\ res = [p \in Clients |-> NoRes]
    /\ pre = NoSnapshot

RosterBeginCreateShift ==
    /\ Idle
    /\ Len(shifts) < MaxRosterShifts
    /\ \E g \in {"g1", "g3"}, start \in {0, TickMinutes} :
         BeginCreateShift(1, g, start, start + 2 * TickMinutes, "site")
    /\ pre' = Snapshot

RosterBeginCheckIn ==
    /\ Idle
    /\ Len(attendance) < MaxAttendance
    /\ \E s \in DOMAIN shifts : BeginCheckIn(1, shifts[s].guard_id, s)
    /\ pre' = Snapshot

RosterBeginSetAvailability ==
    /\ Idle
    /\ \E available \in BOOLEAN : BeginSetAvailability(1, "g2", available)
    /\ pre' = Snapshot

RosterBeginDetect == Idle /\ BeginDetect(1) /\ pre' = Snapshot

RosterBeginAccept ==
    /\ Idle
    /\ \E g \in {"g1", "g2"}, s \in DOMAIN shifts :
         \E n \in {{}} \cup {{i} : i \in {j \in DOMAIN notifications :
                                            notifications[j].user_id = g}} :
           BeginAccept(1, g, s, n)
    /\ pre' = Snapshot

NextRoster ==
    \/ RosterBeginCreateShift
    \/ RosterBeginCheckIn
    \/ RosterBeginSetAvailability
    \/ RosterBeginDetect
    \/ RosterBeginAccept
    \/ CreateShiftCheckGuard(1)
    \/ CreateShiftInsert(1)
    \/ CheckInSelectShift(1)
    \/ CheckInInsert(1)
    \/ SetAvailabilityCheckGuard(1)
    \/ SetAvailabilitySelect(1)
    \/ SetAvailabilityWrite(1)
    \/ DetectSelect(1)
    \/ DetectMarkSearching(1)
    \/ DetectFindGuards(1)
    \/ DetectNotify(1)
    \/ AcceptCheckGuard(1)
    \/ AcceptSelectShift(1)
    \/ AcceptUpdateShift(1)
    \/ AcceptMarkNotification(1)
    \/ AcceptCancelNotifications(1)

SpecRoster == InitRoster /\ [][NextRoster]_vars

\* Concurrent acceptances: g3 missed a shift, one tick has passed and a scan
\* has marked the shift searching and notified g1 and g2; each client then
\* sends one accept_replacement for that shift, and the statements of the
\* running handlers interleave in every order.
InitAcceptRace ==
    /\ firearms = [f1 |-> "available", f2 |-> "available"]
    /\ firearm_allocations = <<>>
    /\ guard_firearm_permits = <<>>
    /\ training_records = <<>>
    /\ armored_cars = [v1 |-> "operational", v2 |-> "available"]
    /\ trips = <<>>
    /\ shifts = <<[NewShift("g3", 0, 2 * TickMinutes, "site")
                     EXCEPT !.replacement_status = "searching"]>>
    /\ attendance = <<>>
    /\ notifications = <<NewNotification("g1", 1), NewNotification("g2", 1)>>
    /\ guard_availability = <<>>
    /\ car_allocations = <<>>
    /\ guard_merit_scores = <<>>
    /\ punctuality_records = <<>>
    /\ client_evaluations = <<>>
    /\ firearm_maintenance = <<>>
    /\ now = TickMinutes
    /\ pc = [p \in Clients |-> "idle"]
    /\ req = [p \in Clients |-> NoReq]
    /\ loc = [p \in Clients |-> NoLoc]
    /\ res = [p \in Clients |-> NoRes]
    /\ pre = NoSnapshot

RaceBeginAccept ==
    \E p \in Clients, g \in {"g1", "g2"},
       n \in {{}} \cup {{i} : i \in DOMAIN notifications} :
        /\ req[p] = NoReq
        /\ BeginAccept(p, g, 1, n)
        /\ UNCHANGED pre

NextAcceptRace ==
    \/ RaceBeginAccept
    \/ \E p \in Clients : AcceptCheckGuard(p)
    \/ \E p \in Clients : AcceptSelectShift(p)
    \/ \E p \in Clients : AcceptUpdateShift(p)
    \/ \E p \in Clients : AcceptMarkNotification(p)
    \/ \E p \in Clients : AcceptCancelNotifications(p)

SpecAcceptRace == InitAcceptRace /\ [][NextAcceptRace]_vars

\* Shift creation on its own: a serial client sends create_shift requests for
\* known and unknown guards with every ordering of start_time and end_time
\* (before, equal, after), so shifts of one guard can coincide.
ShiftsBeginCreateShift ==
    /\ Idle
    /\ Len(shifts) < MaxCreatedShifts
    /\ \E g \in {"g1", "g2", "g9", ""},
          start \in {0, TickMinutes},
          end \in {0, TickMinutes, 2 * TickMinutes} :
         BeginCreateShift(1, g, start, end, "site")
    /\ pre' = Snapshot

NextShifts ==
    \/ ShiftsBeginCreateShift
    \/ CreateShiftCheckGuard(1)
    \/ CreateShiftInsert(1)

SpecShifts == InitRoster /\ [][NextShifts]_vars

\* Attendance on its own: g1 holds one scheduled shift; a serial client sends
\* check_in and check_out requests for known and unknown ids while time passes.
InitAttendance ==
    /\ firearms = [f1 |-> "available", f2 |-> "available"]
    /\ firearm_allocations = <<>>
    /\ guard_firearm_permits = <<>>
    /\ training_records = <<>>
    /\ armored_cars = [v1 |-> "operational", v2 |-> "available"]
    /\ trips = <<>>
    /\ shifts = <<NewShift("g1", 0, 2 * TickMinutes, "site")>>
    /\ attendance = <<>>
    /\ notifications = <<>>
    /\ guard_availability = <<>>
    /\ car_allocations = <<>>
    /\ guard_merit_scores = <<>>
    /\ punctuality_records = <<>>
    /\ client_evaluations = <<>>
    /\ firearm_maintenance = <<>>
    /\ now = 0
    /\ pc = [p \in Clients |-> "idle"]
    /\ req = [p \in Clients |-> NoReq]
    /\ loc = [p \in Clients |-> NoLoc]
    /\ res = [p \in Clients |-> NoRes]
    /\ pre = NoSnapshot

AttendBeginCheckIn ==
    /\ Idle
    /\ Len(attendance) < MaxCheckIns
    /\ \E g \in {"g1", "g9"}, s \in {1, 9} : BeginCheckIn(1, g, s)
    /\ pre' = Snapshot

AttendBeginCheckOut ==
    /\ Idle
    /\ \E a \in 1..(Len(attendance) + 1) : BeginCheckOut(1, a)
    /\ pre' = Snapshot

AttendTick == Tick

NextAttendance ==
    \/ AttendBeginCheckIn
    \/ AttendBeginCheckOut
    \/ CheckInSelectShift(1)
    \/ CheckInInsert(1)
    \/ CheckOutSelect(1)
    \/ CheckOutUpdate(1)
    \/ AttendTick

SpecAttendance == InitAttendance /\ [][NextAttendance]_vars

\* No-show scans over several shifts: one tick after time 0 a serial client
\* creates shifts for verified and unverified guards in windows that coincide,
\* touch or lie apart, records check-ins, sets g2's availability and scans.
ScanWindows ==
    {<<0, TickMinutes>>, <<TickMinutes, 2 * TickMinutes>>,
     <<3 * TickMinutes, 4 * TickMinutes>>}

ScanBeginCreateShift ==
    /\ Idle
    /\ Len(shifts) < MaxScanShifts
    /\ \E g \in {"g1", "g2", "g3"}, w \in ScanWindows :
         BeginCreateShift(1, g, w[1], w[2], "site")
    /\ pre' = Snapshot

ScanBeginCheckIn ==
    /\ Idle
    /\ Len(attendance) < MaxAttendance
    /\ \E s \in DOMAIN shifts : BeginCheckIn(1, shifts[s].guard_id, s)
    /\ pre' = Snapshot

ScanBeginSetAvailability ==
    /\ Idle
    /\ \E available \in BOOLEAN : BeginSetAvailability(1, "g2", available)
    /\ pre' = Snapshot

ScanBeginDetect == Idle /\ BeginDetect(1) /\ pre' = Snapshot

NextScan ==
    \/ ScanBeginCreateShift
    \/ ScanBeginCheckIn
    \/ ScanBeginSetAvailability
    \/ ScanBeginDetect
    \/ CreateShiftCheckGuard(1)
    \/ CreateShiftInsert(1)
    \/ CheckInSelectShift(1)
    \/ CheckInInsert(1)
    \/ SetAvailabilityCheckGuard(1)
    \/ SetAvailabilitySelect(1)
    \/ SetAvailabilityWrite(1)
    \/ DetectSelect(1)
    \/ DetectMarkSearching(1)
    \/ DetectFindGuards(1)
    \/ DetectNotify(1)

SpecScan == InitRoster /\ [][NextScan]_vars

\* Reassignment of a missed shift: one tick after time 0 a serial client creates
\* a shift starting at 0, scans, and rewrites the shift's guard through
\* accept_replacement, request_replacement and update_shift.
ReassignBeginCreateShift ==
    /\ Idle
    /\ Len(shifts) < MaxRosterShifts
    /\ \E g \in {"g1", "g3"} : BeginCreateShift(1, g, 0, 2 * TickMinutes, "site")
    /\ pre' = Snapshot

ReassignBeginDetect == Idle /\ BeginDetect(1) /\ pre' = Snapshot

ReassignBeginAccept ==
    /\ Idle
    /\ \E g \in {"g1", "g2"}, s \in DOMAIN shifts : BeginAccept(1, g, s, {})
    /\ pre' = Snapshot

ReassignBeginRequest ==
    /\ Idle
    /\ \E orig \in {"g3", "g9"}, repl \in {"g2", "g9"}, s \in 1..(Len(shifts) + 1) :
         BeginRequestReplacement(1, orig, repl, s)
    /\ pre' = Snapshot

ReassignBeginUpdateShift ==
    /\ Idle
    /\ \E s \in 1..(Len(shifts) + 1), g \in {"g1", "g2"}, start \in {0, TickMinutes} :
         BeginUpdateShift(1, s, g, start, start + 2 * TickMinutes, "site")
    /\ pre' = Snapshot

NextReassign ==
    \/ ReassignBeginCreateShift
    \/ ReassignBeginDetect
    \/ ReassignBeginAccept
    \/ ReassignBeginRequest
    \/ ReassignBeginUpdateShift
    \/ CreateShiftCheckGuard(1)
    \/ CreateShiftInsert(1)
    \/ DetectSelect(1)
    \/ DetectMarkSearching(1)
    \/ DetectFindGuards(1)
    \/ DetectNotify(1)
    \/ AcceptCheckGuard(1)
    \/ AcceptSelectShift(1)
    \/ AcceptUpdateShift(1)
    \/ AcceptCancelNotifications(1)
    \/ RequestCheckOriginal(1)
    \/ RequestCheckReplacement(1)
    \/ RequestSelectShift(1)
    \/ RequestUpdateShift(1)
    \/ UpdateShiftSelect(1)
    \/ UpdateShiftWrite(1)

SpecReassign == InitRoster /\ [][NextReassign]_vars

\* Merit calculation over histories: the store holds g1's history, written by
\* the collaborators that record attendance, punctuality and evaluations, and a
\* serial client asks for merit scores of known and unknown guards.  Shift 1
\* belongs to g2 and is the shift every attendance record refers to.
HistoryStore(completed, total, ontime, records, ratings) ==
    /\ firearms = [f1 |-> "available", f2 |-> "available"]
    /\ firearm_allocations = <<>>
    /\ guard_firearm_permits = <<>>
    /\ training_records = <<>>
    /\ armored_cars = [v1 |-> "operational", v2 |-> "available"]
    /\ trips = <<>>
    /\ shifts = <<NewShift("g2", 0, 2 * TickMinutes, "site")>>
                  \o [i \in 1..total |-> NewShift("g1", 0, 2 * TickMinutes, "site")]
    /\ attendance = [i \in 1..completed |->
                       [guard_id |-> "g1", shift_id |-> 1, check_in_time |-> 0,
                        check_out_time |-> TickMinutes, status |-> "completed"]]
    /\ notifications = <<>>
    /\ guard_availability = <<>>
    /\ car_allocations = <<>>
    /\ guard_merit_scores = <<>>
    /\ punctuality_records =
         [i \in 1..records |->
            [guard_id |-> "g1", is_on_time |-> i <= ontime,
             status |-> IF i <= ontime THEN "present" ELSE "late"]]
    /\ client_evaluations = [i \in DOMAIN ratings |->
                               [guard_id |-> "g1", rating |-> ratings[i]]]
    /\ firearm_maintenance = <<>>
    /\ now = 2 * TickMinutes
    /\ pc = [p \in Clients |-> "idle"]
    /\ req = [p \in Clients |-> NoReq]
    /\ loc = [p \in Clients |-> NoLoc]
    /\ res = [p \in Clients |-> NoRes]
    /\ pre = NoSnapshot

\* Rating lists up to order: AVG and COUNT do not depend on the order.
RatingLists ==
    {s \in UNION {[1..n -> 0..MaxRating] : n \in 0..MaxEvaluations} :
        \A i \in 1..(Len(s) - 1) : s[i] <= s[i + 1]}

\* Every small history, and the history of the scenario with 10 shifts, 8
\* completed, 9 of 9 punctuality records on time and ratings averaging 4.5.
InitMerit ==
    \/ \E completed \in 0..MaxHistory, total \in 0..MaxHistory,
          records \in 0..MaxHistory, ratings \in RatingLists :
         \E ontime \in 0..records :
           HistoryStore(completed, total, ontime, records, ratings)
    \/ HistoryStore(8, 10, 9, 9, <<4, 5, 4, 5>>)

MeritBeginCalculate ==
    /\ Idle
    /\ \E g \in {"g1", "g9"} : BeginCalculateMerit(1, g)
    /\ pre' = Snapshot

NextMerit ==
    \/ MeritBeginCalculate
    \/ MeritReadHistory(1)
    \/ MeritSelect(1)
    \/ MeritWrite(1)

SpecMerit == InitMerit /\ [][NextMerit]_vars

\* Concurrent calculations: over a few histories of g1 each client sends one
\* calculate_merit_score for g1 or g2, and the statements interleave.
InitMeritRace ==
    \E completed \in 0..1, ratings \in {<<>>, <<MaxRating>>} :
        HistoryStore(completed, 1, 1, 1, ratings)

RaceBeginCalculate ==
    \E p \in Clients, g \in {"g1", "g2"} :
        /\ req[p] = NoReq
        /\ BeginCalculateMerit(p, g)
        /\ UNCHANGED pre

NextMeritRace ==
    \/ RaceBeginCalculate
    \/ \E p \in Clients : MeritReadHistory(p)
    \/ \E p \in Clients : MeritSelect(p)
    \/ \E p \in Clients : MeritWrite(p)

SpecMeritRace == InitMeritRace /\ [][NextMeritRace]_vars

\* -------------------------------------------------------- SpecMissionStatus
\* One client at a time issues firearms to g2 by hand, returns allocations,
\* assigns missions of one guard, at most one firearm and one vehicle, and
\* updates the status of a mission.
MaxStatusAllocs == 2

StatusBeginIssue ==
    /\ Idle
    /\ Len(firearm_allocations) < MaxStatusAllocs
    /\ \E f \in DOMAIN firearms : BeginIssue(1, f, "g2", FALSE)
    /\ pre' = Snapshot

StatusBeginMission ==
    /\ Idle
    /\ trips = <<>>
    /\ Len(firearm_allocations) < MaxStatusAllocs
    /\ \E f \in 0..1 : BeginMission(1, 1, f, 1, MissionStart, MissionEnd)
    /\ pre' = Snapshot

StatusBeginUpdateMissionStatus ==
    /\ Idle
    /\ \E m \in 1..(Len(trips) + 1), status \in {"in_progress", "completed"} :
         BeginUpdateMissionStatus(1, m, status)
    /\ pre' = Snapshot

NextMissionStatus ==
    \/ StatusBeginIssue
    \/ SeqBeginReturn
    \/ StatusBeginMission
    \/ StatusBeginUpdateMissionStatus
    \/ IssueCheckFirearm(1)
    \/ IssueCheckGuard(1)
    \/ IssueCheckPermit(1)
    \/ IssueCheckTraining(1)
    \/ IssueInsertAllocation(1)
    \/ IssueUpdateFirearm(1)
    \/ ReturnSelect(1)
    \/ ReturnUpdateAllocation(1)
    \/ ReturnUpdateFirearm(1)
    \/ MissionFindGuards(1)
    \/ MissionFindFirearms(1)
    \/ MissionFindVehicles(1)
    \/ MissionWrite(1)
    \/ MissionStatusUpdateTrip(1)
    \/ MissionStatusReleaseCar(1)
    \/ MissionStatusReleaseFirearms(1)
    \/ MissionStatusCloseAllocations(1)

SpecMissionStatus == Init /\ [][NextMissionStatus]_vars

\* ------------------------------------------------------------ SpecScanRace
\* Two detect_no_shows scans, their statements interleaved in every order,
\* over a roster in which g3's shift is past its grace deadline with no
\* attendance and nothing flagged yet.
InitScanRace ==
    /\ firearms = [f1 |-> "available", f2 |-> "available"]
    /\ firearm_allocations = <<>>
    /\ guard_firearm_permits = <<>>
    /\ training_records = <<>>
    /\ armored_cars = [v1 |-> "operational", v2 |-> "available"]
    /\ trips = <<>>
    /\ shifts = <<NewShift("g3", 0, TickMinutes, "site")>>
    /\ attendance = <<>>
    /\ notifications = <<>>
    /\ guard_availability = <<>>
    /\ car_allocations = <<>>
    /\ guard_merit_scores = <<>>
    /\ punctuality_records = <<>>
    /\ client_evaluations = <<>>
    /\ firearm_maintenance = <<>>
    /\ now = TickMinutes
    /\ pc = [p \in Clients |-> "idle"]
    /\ req = [p \in Clients |-> NoReq]
    /\ loc = [p \in Clients |-> NoLoc]
    /\ res = [p \in Clients |-> NoRes]
    /\ pre = NoSnapshot

RaceBeginDetect ==
    \E p \in Clients :
        /\ req[p] = NoReq
        /\ BeginDetect(p)
        /\ UNCHANGED pre

NextScanRace ==
    \/ RaceBeginDetect
    \/ \E p \in Clients : DetectSelect(p)
    \/ \E p \in Clients : DetectMarkSearching(p)
    \/ \E p \in Clients : DetectFindGuards(p)
    \/ \E p \in Clients : DetectNotify(p)

SpecScanRace == InitScanRace /\ [][NextScanRace]_vars

\* ----------------------------------------------------------- SpecSearching
\* One client at a time creates a shift, flags g2 available or unavailable,
\* scans (any statement of the scan's loop may fail), accepts, requests a
\* replacement and rewrites the shift.
SearchBeginRequest ==
    /\ Idle
    /\ \E s \in DOMAIN shifts : BeginRequestReplacement(1, shifts[s].guard_id, "g2", s)
    /\ pre' = Snapshot

SearchBeginUpdateShift ==
    /\ Idle
    /\ \E s \in DOMAIN shifts :
         BeginUpdateShift(1, s, "g1", shifts[s].start_time, shifts[s].end_time, "site")
    /\ pre' = Snapshot

NextSearching ==
    \/ ReassignBeginCreateShift
    \/ ScanBeginSetAvailability
    \/ ReassignBeginDetect
    \/ ReassignBeginAccept
    \/ SearchBeginRequest
    \/ SearchBeginUpdateShift
    \/ CreateShiftCheckGuard(1)
    \/ CreateShiftInsert(1)
    \/ SetAvailabilityCheckGuard(1)
    \/ SetAvailabilitySelect(1)
    \/ SetAvailabilityWrite(1)
    \/ DetectSelect(1)
    \/ DetectMarkSearching(1)
    \/ DetectFindGuards(1)
    \/ DetectNotify(1)
    \/ DetectStatementFails(1)
    \/ AcceptCheckGuard(1)
    \/ AcceptSelectShift(1)
    \/ AcceptUpdateShift(1)
    \/ AcceptCancelNotifications(1)
    \/ RequestCheckOriginal(1)
    \/ RequestCheckReplacement(1)
    \/ RequestSelectShift(1)
    \/ RequestUpdateShift(1)
    \/ UpdateShiftSelect(1)
    \/ UpdateShiftWrite(1)

SpecSearching == InitRoster /\ [][NextSearching]_vars

\* --------------------------------------------------------- SpecMaintenance
\* One client at a time issues firearms to g2, returns allocations, schedules
\* maintenance for a firearm and completes maintenance records.
MaxMaintenance == 2

MaintBeginSchedule ==
    /\ Idle
    /\ Len(firearm_maintenance) < MaxMaintenance
    /\ \E f \in {"f1", "f2", "f9"} : BeginScheduleMaintenance(1, f)
    /\ pre' = Snapshot

MaintBeginComplete ==
    /\ Idle
    /\ \E m \in 1..(Len(firearm_maintenance) + 1) : BeginCompleteMaintenance(1, m)
    /\ pre' = Snapshot

NextMaintenance ==
    \/ StatusBeginIssue
    \/ SeqBeginReturn
    \/ MaintBeginSchedule
    \/ MaintBeginComplete
    \/ IssueCheckFirearm(1)
    \/ IssueCheckGuard(1)
    \/ IssueCheckPermit(1)
    \/ IssueCheckTraining(1)
    \/ IssueInsertAllocation(1)
    \/ IssueUpdateFirearm(1)
    \/ ReturnSelect(1)
    \/ ReturnUpdateAllocation(1)
    \/ ReturnUpdateFirearm(1)
    \/ ScheduleMaintenanceInsert(1)
    \/ ScheduleMaintenanceUpdateFirearm(1)
    \/ CompleteMaintenanceSelect(1)
    \/ CompleteMaintenanceUpdate(1)
    \/ CompleteMaintenanceRestoreFirearm(1)

SpecMaintenance == Init /\ [][NextMaintenance]_vars

\* ------------------------------------------------------ SpecAttendanceMerit
\* One client at a time checks guards in and out of the roster's shift and
\* asks for merit scores.
NextAttendanceMerit ==
    \/ AttendBeginCheckIn
    \/ AttendBeginCheckOut
    \/ MeritBeginCalculate
    \/ CheckInSelectShift(1)
    \/ CheckInInsert(1)
    \/ CheckOutSelect(1)
    \/ CheckOutUpdate(1)
    \/ MeritReadHistory(1)
    \/ MeritSelect(1)
    \/ MeritWrite(1)

SpecAttendanceMerit == InitAttendance /\ [][NextAttendanceMerit]_vars

\* ------------------------------------------------------------- SpecFleet
\* One client at a time adds cars, issues and returns one car, assigns one
\* mission of one guard and one vehicle, updates the trip and the mission, and
\* sets cars operational by hand.
MaxFleet == 3

FleetBeginAddCar ==
    /\ Idle
    /\ Cardinality(DOMAIN armored_cars) < MaxFleet
    /\ BeginAddCar(1)
    /\ pre' = Snapshot

FleetBeginIssueCar ==
    /\ Idle
    /\ car_allocations = <<>>
    /\ \E v \in DOMAIN armored_cars : BeginIssueCar(1, v, "client")
    /\ pre' = Snapshot

FleetBeginReturnCar ==
    /\ Idle
    /\ \E a \in DOMAIN car_allocations : BeginReturnCar(1, a)
    /\ pre' = Snapshot

FleetBeginMission ==
    /\ Idle
    /\ trips = <<>>
    /\ BeginMission(1, 1, 0, 1, MissionStart, MissionEnd)
    /\ pre' = Snapshot

FleetBeginUpdateTripStatus ==
    /\ Idle
    /\ \E t \in DOMAIN trips, status \in {"in_progress", "completed"} :
         BeginUpdateTripStatus(1, t, status)
    /\ pre' = Snapshot

FleetBeginUpdateMissionStatus ==
    /\ Idle
    /\ \E m \in DOMAIN trips : BeginUpdateMissionStatus(1, m, "completed")
    /\ pre' = Snapshot

FleetBeginUpdateCar ==
    /\ Idle
    /\ \E v \in DOMAIN armored_cars : BeginUpdateCar(1, v, "operational")
    /\ pre' = Snapshot

NextFleet ==
    \/ FleetBeginAddCar
    \/ FleetBeginIssueCar
    \/ FleetBeginReturnCar
    \/ FleetBeginMission
    \/ FleetBeginUpdateTripStatus
    \/ FleetBeginUpdateMissionStatus
    \/ FleetBeginUpdateCar
    \/ AddCarInsert(1)
    \/ IssueCarInsert(1)
    \/ IssueCarUpdateCar(1)
    \/ ReturnCarSelect(1)
    \/ ReturnCarUpdateAllocation(1)
    \/ ReturnCarUpdateCar(1)
    \/ MissionFindGuards(1)
    \/ MissionFindFirearms(1)
    \/ MissionFindVehicles(1)
    \/ MissionWrite(1)
    \/ TripStatusUpdateTrip(1)
    \/ TripStatusUpdateCar(1)
    \/ MissionStatusUpdateTrip(1)
    \/ MissionStatusReleaseCar(1)
    \/ MissionStatusReleaseFirearms(1)
    \/ MissionStatusCloseAllocations(1)
    \/ UpdateCarSelect(1)
    \/ UpdateCarWrite(1)

SpecFleet == InitRoster /\ [][NextFleet]_vars

\* ----------------------------------------------------------- SpecCheckIn
\* One client at a time creates a shift, checks g1 or g2 in for a shift,
\* checks attendance out and scans for no-shows.
CheckBeginCheckIn ==
    /\ Idle
    /\ Len(attendance) < MaxAttendance
    /\ \E g \in {"g1", "g2"}, s \in DOMAIN shifts : BeginCheckIn(1, g, s)
    /\ pre' = Snapshot

NextCheckIn ==
    \/ ReassignBeginCreateShift
    \/ CheckBeginCheckIn
    \/ AttendBeginCheckOut
    \/ ReassignBeginDetect
    \/ CreateShiftCheckGuard(1)
    \/ CreateShiftInsert(1)
    \/ CheckInSelectShift(1)
    \/ CheckInInsert(1)
    \/ CheckOutSelect(1)
    \/ CheckOutUpdate(1)
    \/ DetectSelect(1)
    \/ DetectMarkSearching(1)
    \/ DetectFindGuards(1)
    \/ DetectNotify(1)

SpecCheckIn == InitRoster /\ [][NextCheckIn]_vars

\* ------------------------------------------------------------- SpecRefs
\* One client at a time calls the handlers that look a referent up, with ids
\* that exist and ids that do not (g9, f9, one past the last row).
MaxRefAllocs == 2

RefsBeginCreateShift ==
    /\ Idle
    /\ Len(shifts) < MaxRosterShifts
    /\ \E g \in {"g1", "g9"} : BeginCreateShift(1, g, 0, TickMinutes, "site")
    /\ pre' = Snapshot

RefsBeginCheckIn ==
    /\ Idle
    /\ Len(attendance) < MaxAttendance
    /\ \E s \in 1..(Len(shifts) + 1) : BeginCheckIn(1, "g1", s)
    /\ pre' = Snapshot

RefsBeginCheckOut ==
    /\ Idle
    /\ \E a \in 1..(Len(attendance) + 1) : BeginCheckOut(1, a)
    /\ pre' = Snapshot

RefsBeginIssue ==
    /\ Idle
    /\ Len(firearm_allocations) < MaxRefAllocs
    /\ \E f \in {"f1", "f9"}, g \in {"g1", "g9"}, force \in BOOLEAN :
         BeginIssue(1, f, g, force)
    /\ pre' = Snapshot

RefsBeginReturn ==
    /\ Idle
    /\ \E a \in 1..(Len(firearm_allocations) + 1) : BeginReturn(1, a)
    /\ pre' = Snapshot

RefsBeginAccept ==
    /\ Idle
    /\ \E g \in {"g2", "g9"}, s \in 1..(Len(shifts) + 1) : BeginAccept(1, g, s, {})
    /\ pre' = Snapshot

NextRefs ==
    \/ RefsBeginCreateShift
    \/ RefsBeginCheckIn
    \/ RefsBeginCheckOut
    \/ RefsBeginIssue
    \/ RefsBeginReturn
    \/ RefsBeginAccept
    \/ CreateShiftCheckGuard(1)
    \/ CreateShiftInsert(1)
    \/ CheckInSelectShift(1)
    \/ CheckInInsert(1)
    \/ CheckOutSelect(1)
    \/ CheckOutUpdate(1)
    \/ IssueCheckFirearm(1)
    \/ IssueCheckGuard(1)
    \/ IssueCheckPermit(1)
    \/ IssueCheckTraining(1)
    \/ IssueInsertAllocation(1)
    \/ IssueUpdateFirearm(1)
    \/ ReturnSelect(1)
    \/ ReturnUpdateAllocation(1)
    \/ ReturnUpdateFirearm(1)
    \/ AcceptCheckGuard(1)
    \/ AcceptSelectShift(1)
    \/ AcceptUpdateShift(1)
    \/ AcceptCancelNotifications(1)

SpecRefs == InitRoster /\ [][NextRefs]_vars

\* ------------------------------------------------------------- SpecCars
\* issue_car and return_car requests, each run to its response before the next
\* begins, over the cars v1 and v2 and a car id that does not exist.
MaxCarAllocs == 3

CarsBeginIssueCar ==
    /\ Idle
    /\ Len(car_allocations) < MaxCarAllocs
    /\ \E v \in {"v1", "v2", "v9"} : BeginIssueCar(1, v, "client")
    /\ pre' = Snapshot

CarsBeginReturnCar ==
    /\ Idle
    /\ \E a \in 1..(Len(car_allocations) + 1) : BeginReturnCar(1, a)
    /\ pre' = Snapshot

NextCars ==
    \/ CarsBeginIssueCar
    \/ CarsBeginReturnCar
    \/ IssueCarInsert(1)
    \/ IssueCarUpdateCar(1)
    \/ ReturnCarSelect(1)
    \/ ReturnCarUpdateAllocation(1)
    \/ ReturnCarUpdateCar(1)

SpecCars == InitRoster /\ [][NextCars]_vars

\* ------------------------------------------------------------ SpecPools
\* One client at a time flags guards g1 and g2 available or unavailable, creates
\* shifts for g3, scans for no-shows and assigns missions that ask for guards
\* only.
MaxPoolShifts == 2

PoolBeginSetAvailability ==
    /\ Idle
    /\ \E g \in {"g1", "g2"}, available \in BOOLEAN : BeginSetAvailability(1, g, available)
    /\ pre' = Snapshot

PoolBeginCreateShift ==
    /\ Idle
    /\ shifts = <<>>
    /\ BeginCreateShift(1, "g3", 0, TickMinutes, "site")
    /\ pre' = Snapshot

PoolBeginDetect == Idle /\ BeginDetect(1) /\ pre' = Snapshot

PoolBeginMission ==
    /\ Idle
    /\ \E g \in 1..2 :
         /\ Len(shifts) + g <= MaxPoolShifts
         /\ BeginMission(1, g, 0, 0, MissionStart, MissionEnd)
    /\ pre' = Snapshot

NextPools ==
    \/ PoolBeginSetAvailability
    \/ PoolBeginCreateShift
    \/ PoolBeginDetect
    \/ PoolBeginMission
    \/ SetAvailabilityCheckGuard(1)
    \/ SetAvailabilitySelect(1)
    \/ SetAvailabilityWrite(1)
    \/ CreateShiftCheckGuard(1)
    \/ CreateShiftInsert(1)
    \/ DetectSelect(1)
    \/ DetectMarkSearching(1)
    \/ DetectFindGuards(1)
    \/ DetectNotify(1)
    \/ MissionFindGuards(1)
    \/ MissionFindFirearms(1)
    \/ MissionFindVehicles(1)
    \/ MissionWrite(1)

SpecPools == InitRoster /\ [][NextPools]_vars


\* ------------------------------------------------------------ properties
Done(p, op) == pc[p] = "idle" /\ req[p].op = op

\* An allocation record is open: status active and return_date unset.
OpenAllocations(f) ==
    {i \in DOMAIN firearm_allocations :
        /\ firearm_allocations[i].firearm_id = f
        /\ firearm_allocations[i].status = "active"
        /\ firearm_allocations[i].return_date = NullTime}

\* C1: of two issue_firearm requests without force for the same firearm, whatever
\* the interleaving of their statements, exactly one is answered Created and
\* leaves the firearm's one active allocation; the other is refused because the
\* firearm is not available.
C1_ExactlyOneIssueSucceeds ==
    \A p \in Clients, q \in Clients :
        (/\ p # q
         /\ Done(p, "issue_firearm")
         /\ Done(q, "issue_firearm")
         /\ req[p].firearm_id = req[q].firearm_id)
        => /\ Cardinality({r \in {p, q} : res[r].kind = "Created"}) = 1
           /\ \A r \in {p, q} :
                res[r].kind # "Created"
                => res[r].kind = "BadRequest" /\ res[r].reason = "Firearm is not available"
           /\ Cardinality(OpenAllocations(req[p].firearm_id)) = 1

\* C3: the request was under-supplied in the store it queried: fewer eligible
\* guards, available firearms or operational vehicles than it requires.
C3_UnderSupplied ==
    \/ Cardinality({u \in UserIds : users[u].role = "user" /\ users[u].verified})
         < req[1].guards_required
    \/ Cardinality({f \in DOMAIN pre.store.firearms : pre.store.firearms[f] = "available"})
         < req[1].firearms_required
    \/ Cardinality({v \in DOMAIN pre.store.armored_cars : pre.store.armored_cars[v] = "operational"})
         < req[1].vehicles_required

\* C3: an assign_mission request that finds any resource type under-supplied is
\* refused as insufficient (a BadRequest whose reason is "Insufficient ...
\* available") and leaves the whole store as it was: no shift, no allocation, no
\* trip, no status change.
C3_UnderSuppliedMissionCreatesNothing ==
    (Done(1, "assign_mission") /\ C3_UnderSupplied)
    => /\ res[1].kind = "BadRequest"
       /\ res[1].reason \in {"Insufficient guards available",
                             "Insufficient firearms available",
                             "Insufficient vehicles available"}
       /\ Store = pre.store

\* C3 witness: two guards and two firearms requested with one firearm available
\* (an earlier mission holds the other), refused with nothing created.
C3_Witness ==
    /\ Done(1, "assign_mission")
    /\ req[1].guards_required = 2
    /\ req[1].firearms_required = 2
    /\ req[1].vehicles_required = 1
    /\ Cardinality({f \in DOMAIN pre.store.firearms : pre.store.firearms[f] = "available"}) = 1
    /\ res[1].kind = "BadRequest"
    /\ res[1].reason = "Insufficient firearms available"
    /\ shifts = pre.store.shifts
    /\ Len(shifts) > 0

\* C4: an assign_mission request that a failing write ends leaves nothing
\* behind: the store is the store the request began in.
C4_FailedMissionLeavesNothing ==
    (Done(1, "assign_mission") /\ res[1].kind = "DatabaseError") => Store = pre.store

\* C5: between calls, a firearm is allocated exactly when an open allocation
\* record references it.
C5_AllocatedIffOpenAllocation ==
    Idle => \A f \in DOMAIN firearms :
                (firearms[f] = "allocated") <=> (OpenAllocations(f) # {})

\* C6: every firearm a successful assign_mission allocated is referenced by
\* exactly one active allocation, whatever ran concurrently with the mission.
C6_MissionNeverDoubleAllocates ==
    \A p \in Clients :
        (Done(p, "assign_mission") /\ res[p].kind = "Created")
        => \A i \in DOMAIN res[p].firearms :
               Cardinality(ActiveAllocations(res[p].firearms[i])) = 1

\* C7: no vehicle has two trips that are scheduled or in progress at once.
C7_VehicleReservedByMission ==
    \A i \in DOMAIN trips, j \in DOMAIN trips :
        (/\ i # j
         /\ trips[i].status \in {"scheduled", "in_progress"}
         /\ trips[j].status \in {"scheduled", "in_progress"})
        => trips[i].car_id # trips[j].car_id

\* The guard of the finished request held, when the request began, a permit
\* with status active and an expiry date later than the clock.
C10_PermitAtCall ==
    \E i \in DOMAIN pre.store.guard_firearm_permits :
        LET r == pre.store.guard_firearm_permits[i] IN
        r.guard_id = req[1].guard_id /\ r.status = "active" /\ r.expiry_date > pre.now

\* The guard of the finished request held, when the request began, a
\* firearms_handling training record that is valid and not expired.
C10_TrainingAtCall ==
    \E i \in DOMAIN pre.store.training_records :
        LET r == pre.store.training_records[i] IN
        /\ r.guard_id = req[1].guard_id
        /\ r.training_type = "firearms_handling"
        /\ r.status = "valid"
        /\ ~(r.expiry_date # NullTime /\ r.expiry_date <= pre.now)

\* C10, as stated: an issue_firearm call without force is answered Created only
\* if the guard held a live permit and live firearms_handling training at the
\* time of the call, and is answered Forbidden whenever either was missing.
C10_DeniedWithForbiddenWheneverMissing ==
    (Done(1, "issue_firearm") /\ ~req[1].force)
    => /\ res[1].kind = "Created" => (C10_PermitAtCall /\ C10_TrainingAtCall)
       /\ ~(C10_PermitAtCall /\ C10_TrainingAtCall) => res[1].kind = "Forbidden"

\* C10, amended: an issue_firearm call without force is answered Created only
\* if the guard held a live permit and live firearms_handling training at the
\* time of the call; it is answered Forbidden when either was missing and the
\* earlier checks passed, that is the firearm exists and is available and the
\* guard exists.
C10_GateDeniesAfterEarlierChecks ==
    (Done(1, "issue_firearm") /\ ~req[1].force)
    => /\ res[1].kind = "Created" => (C10_PermitAtCall /\ C10_TrainingAtCall)
       /\ (/\ req[1].firearm_id \in DOMAIN pre.store.firearms
           /\ pre.store.firearms[req[1].firearm_id] = "available"
           /\ req[1].guard_id \in UserIds
           /\ ~(C10_PermitAtCall /\ C10_TrainingAtCall))
          => res[1].kind = "Forbidden"

\* C10 witness: a call without force for an available firearm by a guard whose
\* only active permit has run out by date, with live training, is Forbidden and
\* allocates nothing.
C10_Witness ==
    /\ Done(1, "issue_firearm")
    /\ ~req[1].force
    /\ req[1].firearm_id \in DOMAIN pre.store.firearms
    /\ pre.store.firearms[req[1].firearm_id] = "available"
    /\ \E i \in DOMAIN pre.store.guard_firearm_permits :
         /\ pre.store.guard_firearm_permits[i].status = "active"
         /\ pre.store.guard_firearm_permits[i].expiry_date <= pre.now
    /\ ~C10_PermitAtCall
    /\ C10_TrainingAtCall
    /\ res[1].kind = "Forbidden"
    /\ firearm_allocations = pre.store.firearm_allocations

\* C2: of two accept_replacement calls by different guards on the same
\* searching shift, whatever the interleaving of their statements, exactly one
\* is answered Ok and is the shift's guard; the other is answered Conflict.
C2_ExactlyOneAcceptWins ==
    \A p \in Clients, q \in Clients :
        (/\ p # q
         /\ Done(p, "accept_replacement")
         /\ Done(q, "accept_replacement")
         /\ req[p].shift_id = req[q].shift_id
         /\ req[p].guard_id # req[q].guard_id)
        => /\ Cardinality({r \in {p, q} : res[r].kind = "Ok"}) = 1
           /\ \A r \in {p, q} : res[r].kind \in {"Ok", "Conflict"}
           /\ \A r \in {p, q} :
                res[r].kind = "Ok" => shifts[req[r].shift_id].guard_id = req[r].guard_id
           /\ shifts[req[p].shift_id].replacement_status = "accepted"

\* The notifications of a store that reference shift s.
NotificationsOf(store, s) ==
    {i \in DOMAIN store.notifications : store.notifications[i].related_shift_id = s}

\* C8: a completed detect_no_shows scan creates no notification for a shift
\* that was already searching or accepted when the scan began: the shift's
\* notifications after the scan are its notifications before it.
C8_ScanDoesNotRenotify ==
    Done(1, "detect_no_shows")
    => \A s \in DOMAIN pre.store.shifts :
           pre.store.shifts[s].replacement_status \in {"searching", "accepted"}
           => /\ NotificationsOf(Store, s) = NotificationsOf(pre.store, s)
              /\ \A i \in NotificationsOf(Store, s) :
                    notifications[i] = pre.store.notifications[i]

\* C8 witness: a second scan has completed over a shift that an earlier scan
\* marked searching and notified a guard for, that is still scheduled, still
\* has no check-in and is still past its grace period; the second scan
\* created nothing.
C8_Witness ==
    /\ Done(1, "detect_no_shows")
    /\ res[1].kind = "Ok"
    /\ \E s \in DOMAIN pre.store.shifts :
         /\ pre.store.shifts[s].replacement_status = "searching"
         /\ pre.store.shifts[s].status = "scheduled"
         /\ pre.store.shifts[s].start_time + DefaultGraceMinutes <= pre.now
         /\ \A a \in DOMAIN pre.store.attendance : pre.store.attendance[a].shift_id # s
         /\ NotificationsOf(pre.store, s) # {}
    /\ notifications = pre.store.notifications

\* C9: an accept_replacement call on a shift that is already accepted is
\* answered Conflict and leaves the shift and every notification as they were.
C9_AcceptOnAcceptedIsConflict ==
    (/\ Done(1, "accept_replacement")
     /\ req[1].shift_id \in DOMAIN pre.store.shifts
     /\ pre.store.shifts[req[1].shift_id].replacement_status = "accepted")
    => /\ res[1].kind = "Conflict"
       /\ shifts[req[1].shift_id] = pre.store.shifts[req[1].shift_id]
       /\ notifications = pre.store.notifications

\* C11: an issue_firearm call, with or without force, is answered Created and
\* adds an active allocation only for a firearm whose status was available
\* when the call began.
C11_IssueOnlyWhenAvailable ==
    (Done(1, "issue_firearm") /\ res[1].kind = "Created")
    => pre.store.firearms[req[1].firearm_id] = "available"

\* C12: an issue_firearm call that the authorization gate denies (Forbidden,
\* for the permit or for the training) leaves the whole store as it was: no
\* allocation is created and no firearm changes status.
C12_DeniedIssueChangesNothing ==
    (Done(1, "issue_firearm") /\ res[1].kind = "Forbidden") => Store = pre.store

\* C12 witness: a call for an available firearm by a guard with a live permit
\* and no valid training was denied, and the firearm is still available with
\* no allocation added.
C12_Witness ==
    /\ Done(1, "issue_firearm")
    /\ res[1].kind = "Forbidden"
    /\ res[1].reason = "no valid training"
    /\ C10_PermitAtCall
    /\ firearms[req[1].firearm_id] = "available"
    /\ firearm_allocations = pre.store.firearm_allocations

\* C13: a forced issue_firearm call that created an allocation left a log event
\* for the bypass: its events are not the events the same call leaves without
\* force.
C13_ForcedIssueLeavesBypassEvent ==
    (Done(1, "issue_firearm") /\ req[1].force /\ res[1].kind = "Created")
    => IssueFirearmEvents(req[1], res[1])
         # IssueFirearmEvents([req[1] EXCEPT !.force = FALSE], res[1])

\* C14: a successful return_firearm on an active allocation closes that
\* allocation (status returned, return_date the current time), sets the
\* firearm it references available, and changes no other allocation and no
\* other firearm.
C14_ReturnClosesOneAllocation ==
    (/\ Done(1, "return_firearm")
     /\ res[1].kind = "Ok"
     /\ pre.store.firearm_allocations[req[1].allocation_id].status = "active")
    => LET a == req[1].allocation_id
           old == pre.store.firearm_allocations
       IN  /\ DOMAIN firearm_allocations = DOMAIN old
           /\ firearm_allocations[a].status = "returned"
           /\ firearm_allocations[a].return_date = pre.now
           /\ firearm_allocations[a].guard_id = old[a].guard_id
           /\ firearm_allocations[a].firearm_id = old[a].firearm_id
           /\ \A i \in DOMAIN old : i # a => firearm_allocations[i] = old[i]
           /\ firearms[old[a].firearm_id] = "available"
           /\ \A f \in DOMAIN firearms :
                f # old[a].firearm_id => firearms[f] = pre.store.firearms[f]

\* C14 witness: an active allocation was returned while another firearm stays
\* allocated under its own active allocation.
C14_Witness ==
    /\ Done(1, "return_firearm")
    /\ res[1].kind = "Ok"
    /\ pre.store.firearm_allocations[req[1].allocation_id].status = "active"
    /\ firearm_allocations[req[1].allocation_id].status = "returned"
    /\ \E i \in DOMAIN firearm_allocations :
         /\ firearm_allocations[i].status = "active"
         /\ firearm_allocations[i].firearm_id
              # firearm_allocations[req[1].allocation_id].firearm_id
         /\ firearms[firearm_allocations[i].firearm_id] = "allocated"

\* Two shift rows have overlapping windows [start_time, end_time).
WindowsOverlap(a, b) == a.start_time < b.end_time /\ b.start_time < a.end_time

ActiveShiftStatuses == {"scheduled", "in_progress"}

\* C15: no guard holds two shifts with status scheduled or in_progress whose
\* time windows overlap.
C15_NoOverlappingActiveShifts ==
    \A i, j \in DOMAIN shifts :
        (/\ i # j
         /\ shifts[i].guard_id = shifts[j].guard_id
         /\ shifts[i].status \in ActiveShiftStatuses
         /\ shifts[j].status \in ActiveShiftStatuses)
        => ~WindowsOverlap(shifts[i], shifts[j])

\* C16: create_shift succeeds only when start_time < end_time; a request with
\* start_time at or after end_time is rejected and creates no shift row; every
\* shift created by create_shift has status scheduled.
C16_CreateShiftRequiresStartBeforeEnd ==
    Done(1, "create_shift")
    => /\ res[1].kind = "Created" => req[1].start_time < req[1].end_time
       /\ req[1].start_time >= req[1].end_time
            => /\ res[1].kind = "BadRequest"
               /\ shifts = pre.store.shifts
       /\ res[1].kind = "Created"
            => /\ Len(shifts) = Len(pre.store.shifts) + 1
               /\ shifts[Len(shifts)].status = "scheduled"

\* The attendance records of a shift in a store.
AttendanceOf(store, s) ==
    {i \in DOMAIN store.attendance : store.attendance[i].shift_id = s}

\* C17: each shift has at most one attendance record; a check_in for a shift
\* that already has one is rejected and creates nothing; a successful check_in
\* creates exactly one attendance in status checked_in and leaves the shift's
\* status unchanged.
C17_OneAttendancePerShift ==
    /\ \A s \in DOMAIN shifts : Cardinality(AttendanceOf(Store, s)) <= 1
    /\ Done(1, "check_in")
       => /\ AttendanceOf(pre.store, req[1].shift_id) # {}
               => /\ res[1].kind # "Created"
                  /\ attendance = pre.store.attendance
          /\ res[1].kind = "Created"
               => /\ Len(attendance) = Len(pre.store.attendance) + 1
                  /\ attendance[Len(attendance)].status = "checked_in"
                  /\ shifts = pre.store.shifts

\* C18: check_out changes an attendance record only when its status is
\* checked_in; on a record already checked_out it is rejected and leaves status
\* and check_out_time unchanged.
C18_CheckOutOnlyFromCheckedIn ==
    (/\ Done(1, "check_out")
     /\ req[1].attendance_id \in DOMAIN pre.store.attendance
     /\ pre.store.attendance[req[1].attendance_id].status = "checked_out")
    => /\ res[1].kind # "Ok"
       /\ attendance[req[1].attendance_id] = pre.store.attendance[req[1].attendance_id]

\* A shift of a store is a no-show at time t: scheduled, without attendance
\* record, its start_time plus its grace period (15 minutes when unset) at or
\* before t, and its replacement_status neither searching nor accepted.
IsNoShow(store, t, i) ==
    LET s == store.shifts[i]
        grace == IF s.grace_period_minutes = NullTime THEN 15
                 ELSE s.grace_period_minutes
    IN  /\ s.status = "scheduled"
        /\ AttendanceOf(store, i) = {}
        /\ s.start_time + grace <= t
        /\ s.replacement_status \notin {"searching", "accepted"}

\* A completed scan moved shift i to replacement_status searching.
MovedToSearching(i) ==
    /\ shifts[i].replacement_status = "searching"
    /\ pre.store.shifts[i].replacement_status # "searching"

\* C19: a run of detect_no_shows moves a shift to replacement_status searching
\* if and only if, at the time of the scan, the shift is scheduled, has no
\* attendance record, is past its grace period and is neither searching nor
\* accepted; a shift with attendance or inside its grace period is not flagged.
C19_ScanFlagsExactlyNoShows ==
    Done(1, "detect_no_shows")
    => /\ DOMAIN shifts = DOMAIN pre.store.shifts
       /\ \A i \in DOMAIN shifts :
            MovedToSearching(i) <=> IsNoShow(pre.store, pre.now, i)

\* C19 witness: a scan flagged an overdue shift and left alone another
\* scheduled shift without attendance that is still inside its grace period.
C19_Witness ==
    /\ Done(1, "detect_no_shows")
    /\ \E i, j \in DOMAIN shifts :
         /\ MovedToSearching(i)
         /\ pre.store.shifts[i].start_time + DefaultGraceMinutes = pre.now
         /\ ~MovedToSearching(j)
         /\ pre.store.shifts[j].status = "scheduled"
         /\ pre.store.shifts[j].replacement_status = NULL
         /\ AttendanceOf(pre.store, j) = {}
         /\ pre.store.shifts[j].start_time + DefaultGraceMinutes > pre.now

\* The notifications a completed scan added.
ScanNotifications ==
    {n \in DOMAIN notifications : n > Len(pre.store.notifications)}

\* Guard u holds, in a store, an active shift overlapping the window of shift s.
HoldsOverlappingShift(store, u, s) ==
    \E j \in DOMAIN store.shifts :
        /\ store.shifts[j].guard_id = u
        /\ store.shifts[j].status \in ActiveShiftStatuses
        /\ WindowsOverlap(store.shifts[j], store.shifts[s])

\* C20: every guard notified by detect_no_shows for a shift is, at scan time,
\* a verified user with the guard role, is not the shift's original guard, and
\* holds no scheduled or in-progress shift overlapping the shift's window.
C20_NotifiedGuardsAreEligible ==
    Done(1, "detect_no_shows")
    => \A n \in ScanNotifications :
         LET u == notifications[n].user_id
             s == notifications[n].related_shift_id
         IN  /\ s \in DOMAIN pre.store.shifts
             /\ u \in UserIds
             /\ users[u].verified
             /\ users[u].role = "user"
             /\ u # pre.store.shifts[s].guard_id
             /\ ~HoldsOverlappingShift(pre.store, u, s)

\* C20 witness: a scan notified one guard for a shift and passed over another
\* verified guard who holds a shift overlapping that shift's window.
C20_Witness ==
    /\ Done(1, "detect_no_shows")
    /\ \E n \in ScanNotifications :
         LET s == notifications[n].related_shift_id IN
         \E u \in UserIds :
            /\ users[u].verified
            /\ users[u].role = "user"
            /\ u # pre.store.shifts[s].guard_id
            /\ HoldsOverlappingShift(pre.store, u, s)
            /\ \A m \in ScanNotifications :
                 ~(notifications[m].user_id = u /\ notifications[m].related_shift_id = s)

C23_FlaggedShiftIsNoShow ==
    Done(1, "detect_no_shows")
    => \A i \in DOMAIN shifts : MovedToSearching(i) => shifts[i].status = "no_show"

\* A completed scan changed no shift's guard and added, for every shift it
\* flagged, exactly one notification per substitute its query finds and none
\* for anyone else or for any other shift.
ScanKeepsGuardsAndNotifiesOnce ==
    Done(1, "detect_no_shows")
    => /\ DOMAIN shifts = DOMAIN pre.store.shifts
       /\ \A i \in DOMAIN shifts : shifts[i].guard_id = pre.store.shifts[i].guard_id
       /\ \A n \in ScanNotifications :
            /\ notifications[n].related_shift_id \in DOMAIN shifts
            /\ MovedToSearching(notifications[n].related_shift_id)
       /\ \A i \in DOMAIN shifts : \A u \in UserIds :
            MovedToSearching(i)
            => Cardinality({n \in ScanNotifications :
                              /\ notifications[n].user_id = u
                              /\ notifications[n].related_shift_id = i})
                 = IF u \in AvailableGuards(pre.store.shifts[i]) THEN 1 ELSE 0

\* A step changes the guard of a shift that is marked searching.
FlaggedShiftReassigned ==
    \E i \in DOMAIN shifts :
        /\ shifts[i].replacement_status = "searching"
        /\ i \in DOMAIN shifts'
        /\ shifts'[i].guard_id # shifts[i].guard_id

\* C22 as stated: detect_no_shows never changes a shift's guard_id and creates
\* exactly one notification per found candidate per flagged shift; a flagged
\* shift keeps its guard until accept_replacement or request_replacement
\* reassigns it.
C22_OnlyReplacementReassigns ==
    /\ []ScanKeepsGuardsAndNotifiesOnce
    /\ [][FlaggedShiftReassigned => pc[1] \in {"ar_update", "rr_update"}]_vars

\* C22 amended: the same, with update_shift as the third operation that can
\* reassign a flagged shift.
C22_ScanNeverReassigns ==
    /\ []ScanKeepsGuardsAndNotifiesOnce
    /\ [][FlaggedShiftReassigned
            => pc[1] \in {"ar_update", "rr_update", "us_update"}]_vars

\* C22 witness: a scan flagged a shift and notified two substitutes, and the
\* shift is still held by the guard who missed it.
C22_Witness ==
    /\ Done(1, "detect_no_shows")
    /\ \E i \in DOMAIN shifts :
         /\ MovedToSearching(i)
         /\ shifts[i].guard_id = pre.store.shifts[i].guard_id
         /\ Cardinality({n \in ScanNotifications :
                           notifications[n].related_shift_id = i}) = 2

\* The merit rows of a guard in a store.
MeritRowsOf(store, g) ==
    {i \in DOMAIN store.guard_merit_scores : store.guard_merit_scores[i].guard_id = g}

\* Client p's calculation succeeded.
MeritOk(p) == Done(p, "calculate_merit_score") /\ res[p].kind = "Ok"

\* C24: calculate_merit_score is an idempotent upsert: over an unchanged
\* history every call for a guard leaves exactly one guard_merit_scores row
\* for the guard and yields the same overall_score and rank, also when two
\* calls for the same guard run concurrently.
C24_MeritIsIdempotentUpsert ==
    \A p, q \in Clients :
        (/\ Done(p, "calculate_merit_score")
         /\ Done(q, "calculate_merit_score")
         /\ req[p].guard_id = req[q].guard_id)
        => /\ res[p].kind = "Ok"
           /\ res[q].kind = "Ok"
           /\ SameScore(res[p].overall_score, res[q].overall_score)
           /\ res[p].rank = res[q].rank
           /\ Cardinality(MeritRowsOf(Store, req[p].guard_id)) = 1

\* The history of a guard in a store, as the counts the scores are made of.
HistoryOf(store, g) ==
    LET ratings == SelectSeq(store.client_evaluations, LAMBDA e : e.guard_id = g)
    IN  [completed |-> Cardinality({i \in DOMAIN store.attendance :
                                      /\ store.attendance[i].guard_id = g
                                      /\ store.attendance[i].status = "completed"}),
         shifts |-> Cardinality({i \in DOMAIN store.shifts :
                                   store.shifts[i].guard_id = g}),
         ontime |-> Cardinality({i \in DOMAIN store.punctuality_records :
                                   /\ store.punctuality_records[i].guard_id = g
                                   /\ store.punctuality_records[i].is_on_time}),
         records |-> Cardinality({i \in DOMAIN store.punctuality_records :
                                    store.punctuality_records[i].guard_id = g}),
         ratingSum |-> SumOf([i \in DOMAIN ratings |-> ratings[i].rating]),
         ratingCount |-> Len(ratings)]

\* The scores the formulas of the merit engine give for a history h, in
\* hundredths where a fraction is needed: num / den.
ExpectedAttendance(h) ==
    IF h.shifts = 0 THEN Fraction(0, 1) ELSE Fraction(100 * h.completed, h.shifts)

ExpectedPunctuality(h) ==
    IF h.records = 0 THEN Fraction(0, 1) ELSE Fraction(100 * h.ontime, h.records)

ExpectedClientRating(h) ==
    IF h.ratingCount = 0 THEN Fraction(0, 1)
    ELSE Fraction(100 * h.ratingSum, 5 * h.ratingCount)

\* 0.30 * attendance + 0.35 * punctuality + 0.35 * client_rating over the
\* product of the three denominators, clamped to [0, 100].
ExpectedOverall(h) ==
    LET a == ExpectedAttendance(h)
        q == ExpectedPunctuality(h)
        c == ExpectedClientRating(h)
        n == 30 * a.num * q.den * c.den + 35 * q.num * a.den * c.den
               + 35 * c.num * a.den * q.den
        d == 100 * a.den * q.den * c.den
    IN  IF n > 100 * d THEN Fraction(100, 1)
        ELSE IF n < 0 THEN Fraction(0, 1)
        ELSE Fraction(n, d)

RankForScore(x) ==
    IF x.num >= 90 * x.den THEN "Gold"
    ELSE IF x.num >= 80 * x.den THEN "Silver"
    ELSE IF x.num >= 70 * x.den THEN "Bronze"
    ELSE "Standard"

\* C26: the rank calculate_merit_score returns and stores is the rank of the
\* overall_score it returns: Gold from 90, Silver from 80, Bronze from 70,
\* Standard below, at the exact boundaries and when the unclamped score lies
\* outside [0, 100].
C26_RankFollowsReturnedScore ==
    MeritOk(1)
    => /\ res[1].rank = RankForScore(res[1].overall_score)
       /\ \A i \in MeritRowsOf(Store, req[1].guard_id) :
            guard_merit_scores[i].rank = res[1].rank

\* C26 witness: a calculation returned exactly 90 and the rank Gold, and the
\* guard's stored row carries Gold.
C26_Witness ==
    /\ MeritOk(1)
    /\ res[1].overall_score = Fraction(90, 1)
    /\ res[1].rank = "Gold"
    /\ \E i \in MeritRowsOf(Store, req[1].guard_id) :
         guard_merit_scores[i].rank = "Gold"

\* A mission request answered 201 Created.
MissionOk(p) == Done(p, "assign_mission") /\ res[p].kind = "Created"

\* The rows a table gained since the request began, in insertion order.
AddedRows(table, before) == SubSeq(table, Len(before) + 1, Len(table))

\* C27: a successful assign_mission(g, f, v) creates exactly g shifts, one per
\* selected guard for the mission window, exactly f active firearm allocations
\* with firearm i bound to guard i, and exactly v trips driven by the first
\* selected guard, for all non-negative g, f, v, f > g and g = 0 included.
C27_MissionCreatesAllItAskedFor ==
    MissionOk(1)
    => LET newShifts == AddedRows(shifts, pre.store.shifts)
           newAllocs == AddedRows(firearm_allocations, pre.store.firearm_allocations)
           newTrips  == AddedRows(trips, pre.store.trips)
       IN  /\ Len(newShifts) = req[1].guards_required
           /\ \A i \in 1..Len(newShifts) :
                /\ newShifts[i].guard_id = res[1].guards[i]
                /\ newShifts[i].start_time = req[1].start_time
                /\ newShifts[i].end_time = req[1].end_time
           /\ Len(newAllocs) = req[1].firearms_required
           /\ \A i \in 1..Len(newAllocs) :
                /\ newAllocs[i].status = "active"
                /\ i <= Len(res[1].guards)
                /\ newAllocs[i].guard_id = res[1].guards[i]
           /\ Len(newTrips) = req[1].vehicles_required
           /\ \A i \in 1..Len(newTrips) :
                /\ Len(res[1].guards) > 0
                /\ newTrips[i].driver_id = res[1].guards[1]

\* A guard whose availability row says available = false.
FlaggedUnavailable(store, g) ==
    \E i \in DOMAIN store.guard_availability :
        /\ store.guard_availability[i].guard_id = g
        /\ ~store.guard_availability[i].available

\* C28: a guard flagged unavailable by set_availability is in no candidate
\* pool: a scan writes no replacement notification for that guard and a
\* successful mission does not select that guard.
C28_UnavailableGuardInNoPool ==
    /\ Done(1, "detect_no_shows")
       => \A i \in Len(pre.store.notifications) + 1 .. Len(notifications) :
            ~FlaggedUnavailable(pre.store, notifications[i].user_id)
    /\ MissionOk(1)
       => \A i \in DOMAIN res[1].guards :
            ~FlaggedUnavailable(pre.store, res[1].guards[i])

\* The active car allocations that reference a car.
ActiveCarAllocations(v) ==
    {i \in DOMAIN car_allocations :
        car_allocations[i].car_id = v /\ car_allocations[i].status = "active"}

\* C30: after any sequence of issue_car and return_car calls, each car is
\* referenced by at most one active car allocation.
C30_CarHasAtMostOneActiveAllocation ==
    Idle => \A v \in DOMAIN armored_cars : Cardinality(ActiveCarAllocations(v)) <= 1

\* The finished request of client p named a referent that did not exist when
\* the request began: the guard of create_shift, the shift of check_in, the
\* attendance of check_out, the allocation of return_firearm, the firearm or
\* the guard of issue_firearm, the guard or the shift of accept_replacement.
MissingReferent(p) ==
    /\ pc[p] = "idle"
    /\ \/ req[p].op = "create_shift" /\ req[p].guard_id \notin UserIds
       \/ req[p].op = "check_in" /\ req[p].shift_id \notin DOMAIN pre.store.shifts
       \/ req[p].op = "check_out"
          /\ req[p].attendance_id \notin DOMAIN pre.store.attendance
       \/ req[p].op = "return_firearm"
          /\ req[p].allocation_id \notin DOMAIN pre.store.firearm_allocations
       \/ req[p].op = "issue_firearm"
          /\ (req[p].firearm_id \notin DOMAIN firearms \/ req[p].guard_id \notin UserIds)
       \/ req[p].op = "accept_replacement"
          /\ (req[p].guard_id \notin UserIds
              \/ req[p].shift_id \notin DOMAIN pre.store.shifts)

\* issue_firearm without force for a firearm that exists and is not available:
\* the status test answers before the guard is looked up.
IssueStoppedAtStatusTest(p) ==
    /\ req[p].op = "issue_firearm"
    /\ ~req[p].force
    /\ req[p].firearm_id \in DOMAIN firearms
    /\ pre.store.firearms[req[p].firearm_id] # "available"

\* C29 as stated: a request that names a referent which does not exist returns
\* NotFound and writes nothing.
C29_MissingReferentIsNotFound ==
    MissingReferent(1) => res[1].kind = "NotFound" /\ Store = pre.store

\* C29, amended: a request that names a referent which does not exist writes
\* nothing and returns NotFound, except that issue_firearm without force for an
\* existing firearm that is not available returns BadRequest before it looks
\* the missing guard up.
C29_MissingReferentWritesNothing ==
    MissingReferent(1)
    => /\ Store = pre.store
       /\ res[1].kind = IF IssueStoppedAtStatusTest(1) THEN "BadRequest" ELSE "NotFound"

\* C29 witness: with an allocation on record, issue_firearm for an existing
\* firearm and a guard that does not exist returned NotFound.
C29_Witness ==
    /\ Done(1, "issue_firearm")
    /\ req[1].firearm_id \in DOMAIN firearms
    /\ req[1].guard_id \notin UserIds
    /\ res[1].kind = "NotFound"
    /\ firearm_allocations # <<>>

\* C31: accept_replacement succeeds only on a shift whose replacement_status
\* is searching: a call on a shift the detector never flagged is rejected and
\* leaves the shift's guard_id as it was.
C31_AcceptOnlyWhenSearching ==
    (/\ Done(1, "accept_replacement")
     /\ req[1].shift_id \in DOMAIN pre.store.shifts
     /\ pre.store.shifts[req[1].shift_id].replacement_status # "searching")
    => /\ res[1].kind # "Ok"
       /\ shifts[req[1].shift_id].guard_id = pre.store.shifts[req[1].shift_id].guard_id

\* C32: a firearm allocation has status returned exactly when its return_date
\* is set, whether return_firearm or update_mission_status closed it, and
\* update_mission_status closes only allocations of the mission's guard.
C32_ReturnedIffReturnDate ==
    /\ Idle => \A i \in DOMAIN firearm_allocations :
                 (firearm_allocations[i].status = "returned")
                 <=> (firearm_allocations[i].return_date # NullTime)
    /\ (Done(1, "update_mission_status") /\ req[1].mission_id \in DOMAIN trips)
       => \A i \in DOMAIN firearm_allocations :
            firearm_allocations[i] # pre.store.firearm_allocations[i]
            => firearm_allocations[i].guard_id = trips[req[1].mission_id].driver_id

\* C33: when detect_no_shows scans run concurrently over the same overdue
\* shift, each guard receives at most one replacement notification for it.
C33_ConcurrentScansNotifyOnce ==
    \A i, j \in DOMAIN notifications :
        (/\ notifications[i].user_id = notifications[j].user_id
         /\ notifications[i].related_shift_id = notifications[j].related_shift_id
         /\ notifications[i].type = "replacement_request"
         /\ notifications[j].type = "replacement_request")
        => i = j

\* The shifts that were searching when the running request began.
SearchingAtBegin == 
    {s \in DOMAIN pre.store.shifts : pre.store.shifts[s].replacement_status = "searching"}

\* A scan that began with a shift already searching neither holds that shift
\* in its result nor has written a notification for it.
LaterScanSkipsSearching ==
    req[1].op = "detect_no_shows"
    => \A s \in SearchingAtBegin :
         /\ \A k \in DOMAIN loc[1].todo : loc[1].todo[k].id # s
         /\ \A i \in Len(pre.store.notifications) + 1 .. Len(notifications) :
              notifications[i].related_shift_id # s

\* A step took some shift out of searching.
LeftSearching ==
    \E s \in DOMAIN shifts :
        /\ shifts[s].replacement_status = "searching"
        /\ shifts'[s].replacement_status # "searching"

\* C34: once a scan has set a shift to searching, no later scan selects it or
\* writes notifications for it, also when the marking scan found no candidate
\* or failed before any notification; the shift leaves searching only through
\* accept_replacement.
C34_SearchingIsNeverRescanned ==
    /\ []LaterScanSkipsSearching
    /\ [][LeftSearching => pc[1] = "ar_update"]_vars

\* C34 witness: a scan ran to its answer over a roster whose overdue shift was
\* already searching with no notification written for it.
C34_Witness ==
    /\ Done(1, "detect_no_shows")
    /\ res[1].kind = "Ok"
    /\ \E s \in SearchingAtBegin :
         /\ \A a \in DOMAIN pre.store.attendance : pre.store.attendance[a].shift_id # s
         /\ \A i \in DOMAIN notifications : notifications[i].related_shift_id # s

\* C35: return_firearm on an allocation that is already returned changes no
\* firearm status and no allocation, also when the firearm has meanwhile been
\* issued again under a new active allocation.
C35_SecondReturnChangesNothing ==
    (/\ Done(1, "return_firearm")
     /\ req[1].allocation_id \in DOMAIN pre.store.firearm_allocations
     /\ pre.store.firearm_allocations[req[1].allocation_id].status = "returned")
    => /\ firearms = pre.store.firearms
       /\ firearm_allocations = pre.store.firearm_allocations

\* In a store, every firearm that an active allocation references has a status
\* other than available and maintenance.
AllocatedFirearmsStayAllocated(store) ==
    \A i \in DOMAIN store.firearm_allocations :
        store.firearm_allocations[i].status = "active"
        => store.firearms[store.firearm_allocations[i].firearm_id]
             \notin {"available", "maintenance"}

\* C36: schedule_maintenance and complete_maintenance never leave a firearm
\* available or in maintenance while an active allocation references it.
C36_MaintenanceKeepsAllocationInvariant ==
    (/\ pc[1] = "idle"
     /\ req[1].op \in {"schedule_maintenance", "complete_maintenance"}
     /\ AllocatedFirearmsStayAllocated(pre.store))
    => AllocatedFirearmsStayAllocated(Store)

SelectedCarsWereOperational ==
    /\ MissionOk(1)
       => \A i \in DOMAIN res[1].vehicles :
            pre.store.armored_cars[res[1].vehicles[i]] = "operational"
    /\ (Done(1, "add_armored_car") /\ res[1].kind = "Created")
       => armored_cars[res[1].carId] = "available"
    /\ (Done(1, "return_car") /\ res[1].kind = "Ok")
       => armored_cars[pre.store.car_allocations[req[1].allocation_id].car_id]
            = "available"

\* A step made some car operational that was not.
BecameOperational ==
    \E v \in DOMAIN armored_cars :
        armored_cars[v] # "operational" /\ armored_cars'[v] = "operational"

\* C38 as stated: assign_mission selects only operational vehicles; an added or
\* released car is available and becomes operational only when a trip or a
\* mission is set to completed.
C38_OperationalOnlyByCompletion ==
    /\ []SelectedCarsWereOperational
    /\ [][BecameOperational => pc[1] \in {"ut_car", "um_car"}]_vars

\* C38, amended: assign_mission selects only operational vehicles; an added or
\* released car is available and becomes operational only when a trip or a
\* mission is set to completed or when update_armored_car writes that status.
C38_OperationalByCompletionOrUpdate ==
    /\ []SelectedCarsWereOperational
    /\ [][BecameOperational => pc[1] \in {"ut_car", "um_car", "uc_update"}]_vars

\* C38 witness: with a car added since the start, a mission took one vehicle
\* while another car of the fleet was available and was left out.
C38_Witness ==
    /\ MissionOk(1)
    /\ Len(res[1].vehicles) = 1
    /\ Cardinality(DOMAIN pre.store.armored_cars) > 2
    /\ \E v \in DOMAIN pre.store.armored_cars : pre.store.armored_cars[v] = "available"

\* C39: every attendance record carries the guard assigned to its shift: a
\* check_in by another guard is rejected and writes no attendance, so it cannot
\* keep the shift out of the no-show scan.
C39_CheckInOnlyByAssignedGuard ==
    /\ \A a \in DOMAIN attendance :
         attendance[a].shift_id \in DOMAIN shifts
         => attendance[a].guard_id = shifts[attendance[a].shift_id].guard_id
    /\ (/\ Done(1, "check_in")
        /\ req[1].shift_id \in DOMAIN pre.store.shifts
        /\ pre.store.shifts[req[1].shift_id].guard_id # req[1].guard_id)
       => /\ res[1].kind # "Created"
          /\ attendance = pre.store.attendance

====
